---- MODULE Spec2Model ----
(***************************************************************************)
(* Ingestion pipeline of the job-market repository: the paginated fetch    *)
(* (src/src/data/fetch_api_data.py), the relational store                  *)
(* (src/src/data/postgres_db.py), the document store                       *)
(* (src/src/data/mongo_db.py), the orchestrator (src/src/data/main.py) and *)
(* the ingestion endpoint (src/src/api/routers/data.py).                   *)
(***************************************************************************)
EXTENDS Integers, Sequences, FiniteSets, TLC

VARIABLES
    sql,      \* committed state of the Postgres database
    mongo,    \* documents of the collection adzuna.jobs
    last,     \* the latest direct call of a store function and its outcome
    api,      \* what the job-search API serves: a sequence of pages
    pc,       \* position of the ingestion request being served
    run,      \* locals of main and fetch_jobs for the request being served
    req,      \* the ingestion request being served
    resp,     \* the endpoint's answer to the request being served, once given
    nruns,    \* number of runs of main started so far
    owed,     \* the latest batch committed to Postgres by a run that failed
              \* before MongoDB held all of it, and that run's arguments
    conns,    \* connections opened by the store functions and not closed
    probe,    \* the latest call of a function of the query or the model code
    airflow   \* the run of the DAG adzuna_pipeline_v1 and the Airflow Variables

vars == <<sql, mongo, last, api, pc, run, req, resp, nruns, owed, conns, probe,
          airflow>>

(***************************************************************************)
(* Bounds of the model.                                                    *)
(***************************************************************************)
MaxBatch == 2      \* longest batch handed to a store function directly
PageSize == 2      \* jobs on a full page of the API (results_per_page)
MaxPages == 2      \* largest max_pages a caller asks for
MaxStart == 2      \* largest start_page a caller asks for
MaxRuns == 2       \* runs of main in one behaviour

(***************************************************************************)
(* Values.  Python's None / SQL NULL for a text is Null, for a number      *)
(* NoNum; a job without an "id" key has id NoId.                           *)
(***************************************************************************)
Null == "<null>"
NoNum == 0 - 1
NoId == 0

(***************************************************************************)
(* Job records as the API returns them.  title stands for every scalar     *)
(* that store_jobs_sql copies verbatim (title, contract_type,              *)
(* contract_time, adref, redirect_url); created is a day number.           *)
(***************************************************************************)
MkJob(id, title, created, smin, smax, company, tag, label, dname, area, lat, lon) ==
    [id |-> id, title |-> title, created |-> created,
     salary_min |-> smin, salary_max |-> smax,
     company |-> company, tag |-> tag, label |-> label,
     display_name |-> dname, area |-> area,
     latitude |-> lat, longitude |-> lon]

J1 == MkJob(1, "dev", 4, 50, 70, "acme", "it-jobs", "IT Jobs", "Berlin",
            <<"Deutschland", "Berlin", "Mitte">>, 52, 13)
\* the same posting served again with other contents
J1b == MkJob(1, "senior dev", 4, 60, 80, "bolt", "it-jobs", "IT-Stellen", "Berlin",
             <<"Deutschland", "Berlin">>, 53, 14)
\* no company, no category, no location
J2 == MkJob(2, "ops", 3, NoNum, NoNum, Null, Null, Null, Null, <<>>, NoNum, NoNum)
J3 == MkJob(3, "data", 1, 40, 40, "acme", "it-jobs", "IT Jobs", "Muenchen",
            <<"Deutschland">>, 48, 11)
\* a record without an "id" key
JBad == MkJob(NoId, "qa", 2, 30, 50, "acme", "it-jobs", "IT Jobs", "Berlin",
              <<"Deutschland", "Berlin", "Mitte">>, 52, 13)

JobUniverse == {J1, J1b, J2, J3, JBad}

Batches == UNION {[1..n -> JobUniverse] : n \in 0..MaxBatch}

BatchIds(jobs) == {jobs[i].id : i \in 1..Len(jobs)}

(***************************************************************************)
(* Relational store.                                                       *)
(***************************************************************************)
EmptySql ==
    [tables |-> FALSE, company |-> {}, category |-> {}, location |-> {},
     job |-> {}, seq |-> [company |-> 0, category |-> 0, location |-> 0]]

\* a plausible slip: a plain INSERT, as if company_name were not UNIQUE
UpsertCompanyPlain(db, name) ==
    LET newid == db.seq.company + 1
    IN  [db |-> [db EXCEPT !.seq.company = newid,
                           !.company = @ \cup {[company_id |-> newid,
                                                company_name |-> name]}],
         id |-> newid]

\* INSERT INTO Company ... ON CONFLICT (company_name) DO UPDATE ... RETURNING
\* company_id.  nextval() is taken before the conflict is detected, and a
\* NULL name never conflicts under UNIQUE.
UpsertCompany(db, name) ==
    LET newid == db.seq.company + 1
        hit == {r \in db.company : name # Null /\ r.company_name = name}
    IN  [db |-> [db EXCEPT !.seq.company = newid,
                           !.company = IF hit = {}
                                       THEN @ \cup {[company_id |-> newid,
                                                     company_name |-> name]}
                                       ELSE @],
         id |-> IF hit = {} THEN newid ELSE (CHOOSE r \in hit : TRUE).company_id]

\* INSERT INTO Category ... ON CONFLICT (tag) DO UPDATE SET label = EXCLUDED.label
UpsertCategory(db, tag, label) ==
    LET newid == db.seq.category + 1
        hit == {r \in db.category : tag # Null /\ r.tag = tag}
    IN  [db |-> [db EXCEPT !.seq.category = newid,
                           !.category = IF hit = {}
                                        THEN @ \cup {[category_id |-> newid,
                                                      tag |-> tag, label |-> label]}
                                        ELSE (@ \ hit) \cup
                                             {[r EXCEPT !.label = label] : r \in hit}],
         id |-> IF hit = {} THEN newid ELSE (CHOOSE r \in hit : TRUE).category_id]

\* country = area_list[0] if len(area_list) > 0 else None
Country(area) == IF Len(area) > 0 THEN area[1] ELSE Null

\* city = area_list[-2] if len(area_list) >= 2 else None
City(area) == IF Len(area) >= 2 THEN area[Len(area) - 1] ELSE Null

\* INSERT INTO Location ... ON CONFLICT (display_name) DO UPDATE SET latitude
UpsertLocation(db, job) ==
    LET newid == db.seq.location + 1
        hit == {r \in db.location :
                    job.display_name # Null /\ r.display_name = job.display_name}
    IN  [db |-> [db EXCEPT !.seq.location = newid,
                           !.location = IF hit = {}
                                        THEN @ \cup {[location_id |-> newid,
                                                      display_name |-> job.display_name,
                                                      latitude |-> job.latitude,
                                                      longitude |-> job.longitude,
                                                      country |-> Country(job.area),
                                                      city |-> City(job.area)]}
                                        ELSE (@ \ hit) \cup
                                             {[r EXCEPT !.latitude = job.latitude] : r \in hit}],
         id |-> IF hit = {} THEN newid ELSE (CHOOSE r \in hit : TRUE).location_id]

JobRow(job, company_id, location_id, category_id) ==
    [job_id |-> job.id, title |-> job.title, created |-> job.created,
     salary_min |-> job.salary_min, salary_max |-> job.salary_max,
     company_id |-> company_id, location_id |-> location_id,
     category_id |-> category_id]

\* a plausible slip: ON CONFLICT (job_id) DO UPDATE, counted as an insert
InsertJobOverwriting(db, job, company_id, location_id, category_id) ==
    [db |-> [db EXCEPT !.job = {r \in @ : r.job_id # job.id} \cup
                                {JobRow(job, company_id, location_id, category_id)}],
     inserted |-> TRUE,
     error |-> job.id = NoId]

\* a plausible slip: the conflict is skipped but counted all the same
InsertJobCounting(db, job, company_id, location_id, category_id) ==
    LET exists == \E r \in db.job : r.job_id = job.id
    IN  [db |-> IF exists \/ job.id = NoId THEN db
                ELSE [db EXCEPT !.job = @ \cup
                        {JobRow(job, company_id, location_id, category_id)}],
         inserted |-> job.id # NoId,
         error |-> job.id = NoId]

\* INSERT INTO Job ... ON CONFLICT (job_id) DO NOTHING RETURNING job_id.
\* job_id is the PRIMARY KEY: a NULL id violates NOT NULL and raises.
InsertJob(db, job, company_id, location_id, category_id) ==
    LET exists == \E r \in db.job : r.job_id = job.id
    IN  [db |-> IF exists \/ job.id = NoId THEN db
                ELSE [db EXCEPT !.job = @ \cup
                        {JobRow(job, company_id, location_id, category_id)}],
         inserted |-> ~exists /\ job.id # NoId,
         error |-> job.id = NoId]

\* the body of "for job in jobs", from index i on, inside one transaction
RECURSIVE SqlLoop(_, _, _, _)
SqlLoop(db, jobs, i, inserted_count) ==
    IF i > Len(jobs)
    THEN [db |-> db, ret |-> inserted_count, ok |-> TRUE]
    ELSE LET c == UpsertCompany(db, jobs[i].company)
             g == UpsertCategory(c.db, jobs[i].tag, jobs[i].label)
             l == UpsertLocation(g.db, jobs[i])
             j == InsertJob(l.db, jobs[i], c.id, l.id, g.id)
         IN  IF j.error
             THEN [db |-> j.db, ret |-> inserted_count, ok |-> FALSE]
             ELSE SqlLoop(j.db, jobs, i + 1,
                          IF j.inserted THEN inserted_count + 1 ELSE inserted_count)

\* a plausible slip: conn.commit() after every job of the batch, so that the
\* rows written before the failing job stay
store_jobs_sql_CommitEach(db, jobs, down) ==
    IF jobs = <<>> THEN [db |-> db, ret |-> 0, ok |-> TRUE, open |-> FALSE]
    ELSE IF down THEN [db |-> db, ret |-> 0, ok |-> FALSE, open |-> FALSE]
    ELSE LET r == SqlLoop([db EXCEPT !.tables = TRUE], jobs, 1, 0)
         IN  [db |-> r.db, ret |-> IF r.ok THEN r.ret ELSE 0, ok |-> r.ok,
              open |-> ~r.ok]

\* store_jobs_sql(jobs) on the committed database db; down: the server
\* refuses the connection.  Result: the committed database afterwards, the
\* value returned, ok = FALSE when the call raises, and open = TRUE when
\* the call leaves without closing the connection it opened.  A call that
\* raises never reaches conn.commit(): the transaction is rolled back, but
\* values drawn from sequences that existed before the call stay drawn.
\* It never reaches cur.close() and conn.close() either: they are the last
\* statements of the function and no try/finally guards them.
store_jobs_sql(db, jobs, down) ==
    IF jobs = <<>> THEN [db |-> db, ret |-> 0, ok |-> TRUE, open |-> FALSE]
    ELSE IF down THEN [db |-> db, ret |-> 0, ok |-> FALSE, open |-> FALSE]
    ELSE LET r == SqlLoop([db EXCEPT !.tables = TRUE], jobs, 1, 0)
         IN  IF r.ok THEN [db |-> r.db, ret |-> r.ret, ok |-> TRUE, open |-> FALSE]
             ELSE [db |-> IF db.tables THEN [db EXCEPT !.seq = r.db.seq] ELSE db,
                   ret |-> 0, ok |-> FALSE, open |-> TRUE]

(***************************************************************************)
(* Document store.                                                         *)
(***************************************************************************)
\* a plausible slip: $set instead of $setOnInsert, every upsert counted
UpsertDocOverwriting(coll, job) ==
    [coll |-> {d \in coll : d.id # job.id} \cup {job}, upserted |-> TRUE]

\* collection.update_one({"id": job["id"]}, {"$setOnInsert": job}, upsert=True)
UpsertDoc(coll, job) ==
    IF \E d \in coll : d.id = job.id
    THEN [coll |-> coll, upserted |-> FALSE]
    ELSE [coll |-> coll \cup {job}, upserted |-> TRUE]

\* faults of the document store during one call: the ping fails, the index
\* creation fails, or the k-th update_one fails
MongoFaults(jobs) ==
    {[at |-> "none", k |-> 0], [at |-> "ping", k |-> 0], [at |-> "index", k |-> 0]}
        \cup {[at |-> "upsert", k |-> i] : i \in 1..Len(jobs)}

\* the body of "for job in jobs", from index i on; job["id"] raises KeyError
\* for a record without an id
RECURSIVE NosqlLoop(_, _, _, _, _)
NosqlLoop(coll, jobs, i, inserted_count, fault) ==
    IF i > Len(jobs)
    THEN [coll |-> coll, ret |-> inserted_count, ok |-> TRUE]
    ELSE IF jobs[i].id = NoId \/ (fault.at = "upsert" /\ fault.k = i)
    THEN [coll |-> coll, ret |-> 0, ok |-> FALSE]
    ELSE LET u == UpsertDoc(coll, jobs[i])
         IN  NosqlLoop(u.coll, jobs, i + 1,
                       IF u.upserted THEN inserted_count + 1 ELSE inserted_count,
                       fault)

\* the try block of store_jobs_nosql on the collection coll under a fault
NosqlTry(coll, jobs, fault) ==
    IF fault.at \in {"ping", "index"}
    THEN [coll |-> coll, ret |-> 0, ok |-> FALSE]
    ELSE NosqlLoop(coll, jobs, 1, 0, fault)

\* a plausible slip: client.close() as the last statement of the try block
\* instead of a finally clause
store_jobs_nosql_NoFinally(coll, jobs, fault) ==
    LET r == NosqlTry(coll, jobs, fault)
    IN  [coll |-> r.coll, ret |-> r.ret, ok |-> r.ok, open |-> ~r.ok]

\* store_jobs_nosql(jobs): the try block, "except: raise", and the finally
\* clause, which closes the client on every path (the client exists on all
\* of them: MongoClient(MONGO_URI) connects lazily); open = TRUE would mean
\* that the call leaves without closing its client
store_jobs_nosql(coll, jobs, fault) ==
    LET r == NosqlTry(coll, jobs, fault)
    IN  [coll |-> r.coll, ret |-> r.ret, ok |-> r.ok, open |-> FALSE]

(***************************************************************************)
(* Direct calls of the store functions on arbitrary batches.  One of the   *)
(* two functions is exercised: it is called on a batch (which prepares the *)
(* store), called on a second batch, and called once more with that second *)
(* batch.  The two store functions share no state.                         *)
(***************************************************************************)
NoCall == [op |-> "none", phase |-> "fresh", batch |-> <<>>, ok |-> TRUE,
           ret |-> 0, fault |-> "none", again |-> FALSE]

NextPhase(p) == IF p = "fresh" THEN "prepared"
                ELSE IF p = "prepared" THEN "called" ELSE "repeated"

\* the call being made repeats a call that returned
Again == last.phase = "called" /\ last.ok

\* the batches a store function may be called on now
Callable ==
    IF last.phase \in {"fresh", "prepared"} THEN Batches
    ELSE IF last.phase = "called" THEN {last.batch} ELSE {}

\* the function op may be called on jobs now
MayCall(op, jobs) == last.op \in {"none", op} /\ jobs \in Callable

CallStoreSql(jobs, down) ==
    /\ MayCall("sql", jobs)
    /\ LET r == store_jobs_sql(sql, jobs, down)
       IN  /\ sql' = r.db
           /\ last' = [op |-> "sql", phase |-> NextPhase(last.phase), batch |-> jobs,
                       ok |-> r.ok, ret |-> r.ret,
                       fault |-> IF down THEN "connect" ELSE "none",
                       again |-> Again]
           /\ conns' = [conns EXCEPT !.pg = IF r.open THEN @ + 1 ELSE @]
    /\ UNCHANGED <<mongo, api, pc, run, req, resp, nruns, owed, probe, airflow>>

CallStoreNosql(jobs, fault) ==
    /\ MayCall("nosql", jobs)
    /\ LET r == store_jobs_nosql(mongo, jobs, fault)
       IN  /\ mongo' = r.coll
           /\ last' = [op |-> "nosql", phase |-> NextPhase(last.phase), batch |-> jobs,
                       ok |-> r.ok, ret |-> r.ret, fault |-> fault.at,
                       again |-> Again]
           /\ conns' = [conns EXCEPT !.mongo = IF r.open THEN @ + 1 ELSE @]
    /\ UNCHANGED <<sql, api, pc, run, req, resp, nruns, owed, probe, airflow>>

InitStores ==
    /\ sql = EmptySql
    /\ mongo = {}
    /\ last = NoCall

NoRun ==
    [via |-> "none", outcome |-> "none", max_pages |-> 0, start_page |-> 0,
     fetch_from |-> <<>>, page |-> 0, jobs |-> <<>>, last_page_fetched |-> <<>>,
     requested |-> <<>>, fetched |-> FALSE,
     fetch_returned |-> FALSE, next_start_page |-> 0,
     sql_called |-> FALSE, sql_ok |-> FALSE, sql_batch |-> <<>>,
     nosql_called |-> FALSE, nosql_ok |-> FALSE, nosql_batch |-> <<>>,
     result |-> <<>>, error |-> <<>>, early_stop |-> FALSE, waited |-> 0]

NoRequest == [has_body |-> FALSE, start_page |-> 0, max_pages |-> 0]
NoResponse == [code |-> 0, body |-> [detail |-> <<>>]]
NoOwed == [ids |-> {}, start_page |-> 0, max_pages |-> 0]
NoConns == [pg |-> 0, mongo |-> 0]
NoProbe == [op |-> "none"]
NoAirflow ==
    [ingest |-> "none", train |-> "none", start_page |-> 0, max_pages |-> 0,
     payload |-> NoRequest]

InitStore ==
    /\ InitStores
    /\ api = <<>>
    /\ pc = "idle"
    /\ run = NoRun
    /\ req = NoRequest
    /\ resp = NoResponse
    /\ nruns = 0
    /\ owed = NoOwed
    /\ conns = NoConns
    /\ probe = NoProbe
    /\ airflow = NoAirflow

NextStore ==
    \/ \E jobs \in Callable, down \in BOOLEAN : CallStoreSql(jobs, down)
    \/ \E jobs \in Callable : \E fault \in MongoFaults(jobs) : CallStoreNosql(jobs, fault)

SpecStore == InitStore /\ [][NextStore]_vars

(***************************************************************************)
(* The job-search API.  It serves one feed, newest first (sort_by=date),   *)
(* cut into pages of PageSize jobs; a page past the end has no results.    *)
(***************************************************************************)
FeedJobs == {J1, J2, JBad, J3}

\* the jobs of a set, newest first
RECURSIVE NewestFirst(_)
NewestFirst(S) ==
    IF S = {} THEN <<>>
    ELSE LET j == CHOOSE x \in S : \A y \in S : y.created <= x.created
         IN  <<j>> \o NewestFirst(S \ {j})

NumPages(feed) == (Len(feed) + PageSize - 1) \div PageSize

Paginate(feed) ==
    [p \in 1..NumPages(feed) |->
        SubSeq(feed, (p - 1) * PageSize + 1,
               IF p * PageSize < Len(feed) THEN p * PageSize ELSE Len(feed))]

ApiFeeds == {Paginate(NewestFirst(S)) : S \in SUBSET FeedJobs}

\* data.get("results", []) of the answer to the request for a page
PageResults(page) == IF page \in 1..Len(api) THEN api[page] ELSE <<>>

(***************************************************************************)
(* main and fetch_jobs, one step per database call, page request and       *)
(* sleep.                                                                  *)
(***************************************************************************)
LOOKBACK_DAYS == 2
DEFAULT_MAX_PAGES == 5
DEFAULT_START_PAGE == 1
\* delay_seconds = 2.5, in tenths of a second
DELAY_TENTHS == 25

\* Python's Optional: <<>> is None, <<v>> is the value v
None == <<>>
Some(v) == <<v>>

\* SELECT MAX(created) FROM Job; None for a missing or an empty table
get_latest_job_date_sql(db) ==
    IF ~db.tables \/ db.job = {} THEN None
    ELSE Some(CHOOSE t \in {r.created : r \in db.job} :
                 \A r \in db.job : r.created <= t)

\* fetch_from = latest_job_date - timedelta(days=2), or None
FetchFrom(latest) ==
    IF latest # None THEN Some(latest[1] - LOOKBACK_DAYS) ELSE None

\* some job of the page has created_dt <= newest_seen
EarlyStop(newest_seen, page_results) ==
    /\ newest_seen # None
    /\ \E i \in 1..Len(page_results) : page_results[i].created <= newest_seen[1]

\* a plausible slip: an empty page does not move last_page_fetched
ProcessPageEmptyNotCounted(r, page_results) ==
    IF page_results = <<>>
    THEN [r EXCEPT !.fetched = TRUE]
    ELSE [r EXCEPT !.jobs = IF EarlyStop(r.fetch_from, page_results)
                            THEN @ ELSE @ \o page_results,
                   !.early_stop = EarlyStop(r.fetch_from, page_results),
                   !.last_page_fetched = Some(r.page)]

\* the body of "for page in range(...)" after the answer for page r.page
\* has arrived: an empty page ends the loop, a page with a job at or before
\* the cutoff is not appended, any other page is appended
ProcessPage(r, page_results) ==
    IF page_results = <<>>
    THEN [r EXCEPT !.last_page_fetched = Some(r.page), !.fetched = TRUE]
    ELSE [r EXCEPT !.jobs = IF EarlyStop(r.fetch_from, page_results)
                            THEN @ ELSE @ \o page_results,
                   !.early_stop = EarlyStop(r.fetch_from, page_results),
                   !.last_page_fetched = Some(r.page)]

\* next_start_page as fetch_jobs computes it after the loop
NextStartPage(r) ==
    (IF r.last_page_fetched = None THEN r.start_page - 1
     ELSE r.last_page_fetched[1]) + 1

\* the loop "for page in range(start_page, start_page + max_pages)" has a
\* next iteration at page
InRange(r, page) == page < r.start_page + r.max_pages

\* the answer of trigger_ingestion when main has returned
Accepted(max_pages) ==
    [code |-> 202,
     body |-> [status |-> "ingestion_accepted", pages_fetched |-> max_pages,
               message |-> "Check logs/DB for inserted count"]]

\* the answer of trigger_ingestion when main has raised e:
\* HTTPException(status_code=500, detail=f"Ingestion failed: {str(e)}")
Failed(e) == [code |-> 500, body |-> [detail |-> <<"Ingestion failed">> \o e]]

\* a plausible slip: "except Exception" logs the error and falls through to
\* the normal answer
RaiseSwallowed(r, e) ==
    /\ run' = [r EXCEPT !.outcome = "raised", !.error = e]
    /\ resp' = IF r.via = "endpoint" THEN Accepted(r.max_pages) ELSE resp
    /\ pc' = "idle"

\* a step of main raises e, an exception named by the function that failed
\* and the cause: main has no handler, so the exception leaves main; the
\* endpoint turns it into a 500
Raise(r, e) ==
    /\ run' = [r EXCEPT !.outcome = "raised", !.error = e]
    /\ resp' = IF r.via = "endpoint" THEN Failed(e) ELSE resp
    /\ pc' = "idle"

\* POST /data/ingest: max_pages = request.max_pages if request else 5, then
\* ingestion_pipeline(max_pages=max_pages); IngestRequest has no start_page
\* field, so main runs with its default start_page
TriggerIngestion(request) ==
    /\ pc = "idle" /\ nruns < MaxRuns
    /\ req' = request
    /\ run' = [NoRun EXCEPT !.via = "endpoint", !.outcome = "running",
                            !.max_pages = IF request.has_body THEN request.max_pages
                                          ELSE DEFAULT_MAX_PAGES,
                            !.start_page = DEFAULT_START_PAGE]
    /\ resp' = NoResponse
    /\ pc' = "latest"
    /\ nruns' = nruns + 1
    /\ UNCHANGED <<sql, mongo, last, api, owed, conns, probe, airflow>>

\* main(max_pages, start_page) called from Python
CallMain(max_pages, start_page) ==
    /\ pc = "idle" /\ nruns < MaxRuns
    /\ run' = [NoRun EXCEPT !.via = "direct", !.outcome = "running",
                            !.max_pages = max_pages, !.start_page = start_page]
    /\ resp' = NoResponse
    /\ pc' = "latest"
    /\ nruns' = nruns + 1
    /\ UNCHANGED <<sql, mongo, last, api, req, owed, conns, probe, airflow>>

\* faults of one call of get_latest_job_date_sql: psycopg2.connect raises,
\* or cur.execute raises an error other than UndefinedTable (the server
\* goes away, the statement is cancelled, the role may not read the table)
LatestFaults == {"none", "connect", "query"}

\* get_latest_job_date_sql leaves without closing the connection it opened:
\* cur.close() and conn.close() follow the try statement, whose only handler
\* is for UndefinedTable
LatestLeavesOpen(fault) == fault = "query"

\* latest_job_date = get_latest_job_date_sql() and the choice of fetch_from
GetLatest(fault) ==
    /\ pc = "latest"
    /\ IF fault # "none"
       THEN Raise(run, <<"get_latest_job_date_sql", fault>>)
       ELSE /\ run' = [run EXCEPT !.fetch_from = FetchFrom(get_latest_job_date_sql(sql)),
                                  !.page = run.start_page,
                                  !.fetched = ~InRange(run, run.start_page)]
            /\ pc' = IF InRange(run, run.start_page) THEN "request" ELSE "fetched"
            /\ UNCHANGED resp
    /\ conns' = [conns EXCEPT !.pg = IF LatestLeavesOpen(fault) THEN @ + 1 ELSE @]
    /\ UNCHANGED <<sql, mongo, last, api, req, nruns, owed, probe, airflow>>

\* what can become of one page request: an answer with status 200, an
\* answer with an error status (raise_for_status raises HTTPError), a
\* connection failure (requests.get raises ConnectionError), or no answer
Answers == {"ok", "http_error", "connection_error", "no_answer"}

\* the timeout of requests.get(url, params=params): none is passed
REQUEST_TIMEOUT == None

\* a plausible slip: a failed request is logged and ends the loop like an
\* empty page
FetchPageSwallowing(answer) ==
    /\ pc = "request"
    /\ LET asked == [run EXCEPT !.requested = Append(@, run.page), !.waited = 0]
       IN  IF answer \in {"http_error", "connection_error"}
           THEN /\ run' = [asked EXCEPT !.error = <<"fetch_jobs", answer>>,
                                        !.fetched = TRUE]
                /\ pc' = "fetched"
                /\ UNCHANGED resp
           ELSE IF answer = "no_answer"
           THEN IF REQUEST_TIMEOUT = None
                THEN run' = asked /\ pc' = "blocked" /\ UNCHANGED resp
                ELSE Raise(asked, <<"fetch_jobs", "timeout">>)
           ELSE LET r == ProcessPage(asked, PageResults(run.page))
                IN  /\ run' = r
                    /\ pc' = IF r.fetched THEN "fetched" ELSE "sleep"
                    /\ UNCHANGED resp
    /\ UNCHANGED <<sql, mongo, last, api, req, nruns, owed, conns, probe, airflow>>

\* requests.get for page run.page, raise_for_status, and the rest of the
\* loop body up to the sleep.  A request that is never answered never
\* returns when no timeout was passed: the call stays in requests.get.
FetchPage(answer) ==
    /\ pc = "request"
    /\ LET asked == [run EXCEPT !.requested = Append(@, run.page), !.waited = 0]
       IN  IF answer \in {"http_error", "connection_error"}
           THEN Raise(asked, <<"fetch_jobs", answer>>)
           ELSE IF answer = "no_answer"
           THEN IF REQUEST_TIMEOUT = None
                THEN run' = asked /\ pc' = "blocked" /\ UNCHANGED resp
                ELSE Raise(asked, <<"fetch_jobs", "timeout">>)
           ELSE LET r == ProcessPage(asked, PageResults(run.page))
                IN  /\ run' = r
                    /\ pc' = IF r.fetched THEN "fetched" ELSE "sleep"
                    /\ UNCHANGED resp
    /\ UNCHANGED <<sql, mongo, last, api, req, nruns, owed, conns, probe, airflow>>

\* a plausible slip: the sleep inside "if not early_stop", so that a page
\* skipped by the cutoff is followed by the next request at once
SleepDelayUnlessSkipped(r) == IF r.early_stop THEN 0 ELSE DELAY_TENTHS

\* what time.sleep(delay_seconds) at the end of the loop body waits
SleepDelay(r) == DELAY_TENTHS

\* time.sleep(delay_seconds), then the next iteration or the end of the loop
Sleep ==
    /\ pc = "sleep"
    /\ run' = [run EXCEPT !.page = @ + 1, !.fetched = ~InRange(run, run.page + 1),
                          !.waited = @ + SleepDelay(run)]
    /\ pc' = IF InRange(run, run.page + 1) THEN "request" ELSE "fetched"
    /\ UNCHANGED <<sql, mongo, last, api, req, resp, nruns, owed, conns, probe, airflow>>

\* fetch_jobs returns {"jobs": jobs, "next_start_page": next_start_page}
FetchReturn ==
    /\ pc = "fetched"
    /\ run' = [run EXCEPT !.next_start_page = NextStartPage(run),
                          !.fetch_returned = TRUE]
    /\ pc' = "sql"
    /\ UNCHANGED <<sql, mongo, last, api, req, resp, nruns, owed, conns, probe, airflow>>

\* a plausible slip: main catches the failure of store_jobs_sql and goes on
\* to store_jobs_nosql
StoreSqlContinuing(down) ==
    /\ pc = "sql"
    /\ LET r == store_jobs_sql(sql, run.jobs, down)
       IN  /\ sql' = r.db
           /\ run' = [run EXCEPT !.sql_called = TRUE, !.sql_ok = r.ok,
                                 !.sql_batch = run.jobs]
           /\ pc' = "nosql"
           /\ conns' = [conns EXCEPT !.pg = IF r.open THEN @ + 1 ELSE @]
    /\ UNCHANGED <<mongo, last, api, req, resp, nruns, owed, probe, airflow>>

\* store_jobs_sql(jobs) in main
StoreSql(down) ==
    /\ pc = "sql"
    /\ LET r == store_jobs_sql(sql, run.jobs, down)
           called == [run EXCEPT !.sql_called = TRUE, !.sql_ok = r.ok,
                                 !.sql_batch = run.jobs]
       IN  /\ sql' = r.db
           /\ IF r.ok
              THEN /\ run' = called
                   /\ pc' = "nosql"
                   /\ UNCHANGED resp
              ELSE Raise(called, <<"store_jobs_sql", IF down THEN "connect" ELSE "insert">>)
           /\ conns' = [conns EXCEPT !.pg = IF r.open THEN @ + 1 ELSE @]
    /\ UNCHANGED <<mongo, last, api, req, nruns, owed, probe, airflow>>

\* the value main returns
MainResult(r) ==
    [status |-> "success", jobs_fetched |-> Len(r.jobs),
     next_start_page |-> r.next_start_page]

\* store_jobs_nosql(jobs) in main, and main's return
StoreNosql(fault) ==
    /\ pc = "nosql"
    /\ LET r == store_jobs_nosql(mongo, run.jobs, fault)
           called == [run EXCEPT !.nosql_called = TRUE, !.nosql_ok = r.ok,
                                 !.nosql_batch = run.jobs]
       IN  /\ mongo' = r.coll
           /\ IF r.ok
              THEN /\ run' = [called EXCEPT !.outcome = "returned",
                                            !.result = Some(MainResult(run))]
                   /\ resp' = IF run.via = "endpoint" THEN Accepted(run.max_pages)
                               ELSE resp
                   /\ pc' = "idle"
                   /\ owed' = owed
              ELSE /\ Raise(called, <<"store_jobs_nosql",
                                      IF fault.at = "none" THEN "KeyError" ELSE fault.at>>)
                   /\ owed' = IF BatchIds(run.jobs) \subseteq {d.id : d \in r.coll}
                              THEN owed
                              ELSE [ids |-> BatchIds(run.jobs),
                                    start_page |-> run.start_page,
                                    max_pages |-> run.max_pages]
           /\ conns' = [conns EXCEPT !.mongo = IF r.open THEN @ + 1 ELSE @]
    /\ UNCHANGED <<sql, last, api, req, nruns, probe, airflow>>

\* a connection that a call left open stays open until the interpreter
\* reclaims the connection object, which psycopg2 then closes: not before
\* the exception that carries the frame of the call has been disposed of
Reclaim ==
    /\ pc = "idle" /\ conns.pg > 0
    /\ conns' = [conns EXCEPT !.pg = 0]
    /\ UNCHANGED <<sql, mongo, last, api, pc, run, req, resp, nruns, owed, probe, airflow>>

Requests ==
    {NoRequest} \cup [has_body : {TRUE}, start_page : 1..MaxStart, max_pages : 0..MaxPages]

Init ==
    /\ InitStores
    /\ api \in ApiFeeds
    /\ pc = "idle"
    /\ run = NoRun
    /\ req = NoRequest
    /\ resp = NoResponse
    /\ nruns = 0
    /\ owed = NoOwed
    /\ conns = NoConns
    /\ probe = NoProbe
    /\ airflow = NoAirflow

Next ==
    \/ \E request \in Requests : TriggerIngestion(request)
    \/ \E m \in 0..MaxPages, s \in 1..MaxStart : CallMain(m, s)
    \/ \E fault \in LatestFaults : GetLatest(fault)
    \/ \E answer \in Answers : FetchPage(answer)
    \/ Sleep
    \/ FetchReturn
    \/ \E down \in BOOLEAN : StoreSql(down)
    \/ \E fault \in MongoFaults(run.jobs) : StoreNosql(fault)
    \/ Reclaim

Spec == Init /\ [][Next]_vars

(***************************************************************************)
(* The DAG adzuna_pipeline_v1 of src/airflow/dags/adzuna_dag.py: the task  *)
(* ingest posts to the ingestion endpoint, whose run of main is the one    *)
(* modelled above, and the task train follows it (ingest() >> train()).    *)
(* airflow holds the state of the two task instances, the Variables        *)
(* start_page and max_pages, and the payload ingest sent.                  *)
(***************************************************************************)
\* the Variables as the deployment has set them, and a DAG run scheduled
DagRuns ==
    [ingest : {"scheduled"}, train : {"none"}, start_page : 1..MaxStart,
     max_pages : 0..MaxPages, payload : {NoRequest}]

\* ingest starts: start_page and max_pages are read and put in the payload
IngestStart ==
    /\ airflow.ingest = "scheduled"
    /\ airflow' = [airflow EXCEPT !.ingest = "running",
                                  !.payload = [has_body |-> TRUE,
                                               start_page |-> airflow.start_page,
                                               max_pages |-> airflow.max_pages]]
    /\ UNCHANGED <<sql, mongo, last, api, pc, run, req, resp, nruns, owed, conns, probe>>

\* requests.post(fastapi_url, json=payload, timeout=300)
IngestPost ==
    /\ airflow.ingest = "running" /\ req = NoRequest
    /\ TriggerIngestion(airflow.payload)

\* what ingest does with the outcome of the post: a timeout and a status of
\* 4xx or 5xx raise, and so does result["next_start_page"] when the body has
\* no such key; every exception becomes an AirflowException, which fails
\* the task.  Otherwise the Variable start_page is set and the task succeeds.
IngestOutcome(a, answer, blocked) ==
    IF blocked \/ answer.code >= 400 THEN [a EXCEPT !.ingest = "failed"]
    ELSE IF "next_start_page" \notin DOMAIN answer.body THEN [a EXCEPT !.ingest = "failed"]
    ELSE [a EXCEPT !.ingest = "success", !.start_page = answer.body.next_start_page]

\* the rest of ingest, once the endpoint has answered or the timeout has
\* passed without an answer
IngestFinish ==
    /\ airflow.ingest = "running" /\ req # NoRequest
    /\ pc = "blocked" \/ (pc = "idle" /\ resp # NoResponse)
    /\ airflow' = IngestOutcome(airflow, resp, pc = "blocked")
    /\ UNCHANGED <<sql, mongo, last, api, pc, run, req, resp, nruns, owed, conns, probe>>

\* the outcomes of requests.post(".../ml/train", timeout=600)
TrainAnswers == {"ok", "error"}

\* train, downstream of ingest with the default trigger rule: it runs when
\* ingest has succeeded, and is marked upstream_failed when ingest failed
TrainTask(answer) ==
    /\ airflow.ingest \in {"success", "failed"} /\ airflow.train = "none"
    /\ airflow' = [airflow EXCEPT !.train =
                      IF airflow.ingest = "failed" THEN "upstream_failed"
                      ELSE IF answer = "ok" THEN "success" ELSE "failed"]
    /\ UNCHANGED <<sql, mongo, last, api, pc, run, req, resp, nruns, owed, conns, probe>>

InitDag ==
    /\ InitStores
    /\ api \in ApiFeeds
    /\ pc = "idle"
    /\ run = NoRun
    /\ req = NoRequest
    /\ resp = NoResponse
    /\ nruns = 0
    /\ owed = NoOwed
    /\ conns = NoConns
    /\ probe = NoProbe
    /\ airflow \in DagRuns

NextDag ==
    \/ IngestStart
    \/ IngestPost
    \/ \E fault \in LatestFaults : GetLatest(fault)
    \/ \E answer \in Answers : FetchPage(answer)
    \/ Sleep
    \/ FetchReturn
    \/ \E down \in BOOLEAN : StoreSql(down)
    \/ \E fault \in MongoFaults(run.jobs) : StoreNosql(fault)
    \/ Reclaim
    \/ IngestFinish
    \/ \E answer \in TrainAnswers : TrainTask(answer)

SpecDag == InitDag /\ [][NextDag]_vars

(***************************************************************************)
(* The query endpoint get_jobs, in its two implementations: the router of  *)
(* src/api/routers/data.py and the application of src/api_main.py.  A call *)
(* is a pure function of the requested columns and of whether each store   *)
(* can be read; its result is the answer and the stores it accessed, in    *)
(* order.                                                                  *)
(***************************************************************************)
MaxCols == 3

\* the state of every variable but probe while a pure function is applied
Quiet ==
    /\ InitStores
    /\ api = <<>>
    /\ pc = "idle"
    /\ run = NoRun
    /\ req = NoRequest
    /\ resp = NoResponse
    /\ nruns = 0
    /\ owed = NoOwed
    /\ conns = NoConns
    /\ airflow = NoAirflow

Members(seq) == {seq[i] : i \in 1..Len(seq)}

\* the allow-lists of the router
sql_columns ==
    <<"title", "contract_type", "contract_time", "created_at", "ref_number",
      "redirect_url", "salary_is_predicted", "company_name", "city">>
mongo_columns == <<"description">>
existing_columns == sql_columns \o mongo_columns

\* the allow-lists of the application
api_main_sql_columns ==
    <<"title", "contract_type", "contract_time", "created_at", "ref_number",
      "redirect_url", "salary_is_predicted", "company_name", "city">>
api_main_mongo_columns == <<"description">>
api_main_existing_columns == api_main_sql_columns \o api_main_mongo_columns

\* the column names a request may carry: relational ones, the document
\* one, and names that no store has
ColumnNames == {"title", "city", "description", "salary", "job_id"}
ColumnLists == UNION {[1..n -> ColumnNames] : n \in 0..MaxCols}

\* [col for col in columns if col not in existing]
MissingColumns(columns, existing) ==
    SelectSeq(columns, LAMBDA col : col \notin Members(existing))

\* any(col in some for col in columns)
AnyIn(columns, some) == Members(columns) \cap Members(some) # {}

\* what get_jobs returns when no exception is raised
Frame(sql_read, mongo_read) ==
    IF sql_read /\ mongo_read THEN "merged"
    ELSE IF sql_read THEN "sql"
    ELSE IF mongo_read THEN "mongo" ELSE "empty"

\* a plausible slip: the columns are checked after the stores have been
\* read
get_jobs_LateCheck(columns, sql_fails, mongo_fails) ==
    LET missing_columns == MissingColumns(columns, existing_columns)
        sql_read == AnyIn(columns, sql_columns)
        mongo_read == AnyIn(columns, mongo_columns)
        sql_opened == IF sql_read THEN <<"sql">> ELSE <<>>
    IN  IF sql_read /\ sql_fails
        THEN [code |-> 500, detail |-> <<"SQL Database access failed">>,
              columns |-> <<>>, frame |-> "none", opened |-> <<"sql">>]
        ELSE IF mongo_read /\ mongo_fails
        THEN [code |-> 500, detail |-> <<"MongoDB Database access failed">>,
              columns |-> <<>>, frame |-> "none", opened |-> sql_opened \o <<"mongo">>]
        ELSE IF missing_columns # <<>>
        THEN [code |-> 400, detail |-> <<"Invalid columns requested: ">>,
              columns |-> missing_columns, frame |-> "none",
              opened |-> sql_opened \o (IF mongo_read THEN <<"mongo">> ELSE <<>>)]
        ELSE [code |-> 200, detail |-> <<>>, columns |-> <<>>,
              frame |-> Frame(sql_read, mongo_read),
              opened |-> sql_opened \o (IF mongo_read THEN <<"mongo">> ELSE <<>>)]

\* get_jobs(columns) of the router; sql_fails, mongo_fails: reading the
\* store raises.  detail and columns are the two parts of the f-string of
\* the 400 answer.
get_jobs(columns, sql_fails, mongo_fails) ==
    LET missing_columns == MissingColumns(columns, existing_columns)
        sql_read == AnyIn(columns, sql_columns)
        mongo_read == AnyIn(columns, mongo_columns)
        sql_opened == IF sql_read THEN <<"sql">> ELSE <<>>
    IN  IF missing_columns # <<>>
        THEN [code |-> 400, detail |-> <<"Invalid columns requested: ">>,
              columns |-> missing_columns, frame |-> "none", opened |-> <<>>]
        ELSE IF sql_read /\ sql_fails
        THEN [code |-> 500, detail |-> <<"SQL Database access failed">>,
              columns |-> <<>>, frame |-> "none", opened |-> <<"sql">>]
        ELSE IF mongo_read /\ mongo_fails
        THEN [code |-> 500, detail |-> <<"MongoDB Database access failed">>,
              columns |-> <<>>, frame |-> "none", opened |-> sql_opened \o <<"mongo">>]
        ELSE [code |-> 200, detail |-> <<>>, columns |-> <<>>,
              frame |-> Frame(sql_read, mongo_read),
              opened |-> sql_opened \o (IF mongo_read THEN <<"mongo">> ELSE <<>>)]

\* get_jobs(columns) of the application
api_main_get_jobs(columns, sql_fails, mongo_fails) ==
    LET missing_columns == MissingColumns(columns, api_main_existing_columns)
        sql_read == AnyIn(columns, api_main_sql_columns)
        mongo_read == AnyIn(columns, api_main_mongo_columns)
        sql_opened == IF sql_read THEN <<"sql">> ELSE <<>>
    IN  IF missing_columns # <<>>
        THEN [code |-> 400, detail |-> <<"Invalid column requested:">>,
              columns |-> missing_columns, frame |-> "none", opened |-> <<>>]
        ELSE IF sql_read /\ sql_fails
        THEN [code |-> 500, detail |-> <<"SQL Database access failed">>,
              columns |-> <<>>, frame |-> "none", opened |-> <<"sql">>]
        ELSE IF mongo_read /\ mongo_fails
        THEN [code |-> 500, detail |-> <<"MongoDB Database access failed">>,
              columns |-> <<>>, frame |-> "none", opened |-> sql_opened \o <<"mongo">>]
        ELSE [code |-> 200, detail |-> <<>>, columns |-> <<>>,
              frame |-> Frame(sql_read, mongo_read),
              opened |-> sql_opened \o (IF mongo_read THEN <<"mongo">> ELSE <<>>)]

\* a request for columns, and whether each store can be read
QueryInputs ==
    [op : {"request"}, columns : ColumnLists, sql_fails : BOOLEAN, mongo_fails : BOOLEAN]

\* GET /data/postings served by the router
GetJobs ==
    /\ probe.op = "request"
    /\ probe' = [op |-> "get_jobs", columns |-> probe.columns,
                 answer |-> get_jobs(probe.columns, probe.sql_fails, probe.mongo_fails)]
    /\ UNCHANGED <<sql, mongo, last, api, pc, run, req, resp, nruns, owed, conns, airflow>>

\* GET /data/postings served by the application
ApiMainGetJobs ==
    /\ probe.op = "request"
    /\ probe' = [op |-> "api_main.get_jobs", columns |-> probe.columns,
                 answer |-> api_main_get_jobs(probe.columns, probe.sql_fails,
                                              probe.mongo_fails)]
    /\ UNCHANGED <<sql, mongo, last, api, pc, run, req, resp, nruns, owed, conns, airflow>>

InitQuery == Quiet /\ probe \in QueryInputs

NextQuery == GetJobs \/ ApiMainGetJobs

SpecQuery == InitQuery /\ [][NextQuery]_vars

(***************************************************************************)
(* Feature extraction of the salary model: extract_simple_features of      *)
(* src/models/train_model.py and of src/models/predict_model.py.  A text   *)
(* is a sequence of pieces: words, blanks, digits and signs, each at most  *)
(* one keyword; a missing text is NaN.                                     *)
(***************************************************************************)
MaxText == 3

\* a column value that is missing, and one that holds the string s
NaN == [na |-> TRUE, s |-> <<>>]
Str(s) == [na |-> FALSE, s |-> s]

\* the pieces texts are made of
Pieces == {"Senior", "c#", ".net", " ", "x", "3", "7", "+", "Jahre"}
Texts == UNION {[1..n -> Pieces] : n \in 0..MaxText}

\* str.lower() of a piece
LowerPiece(p) ==
    IF p = "Senior" THEN "senior"
    ELSE IF p = "Jahre" THEN "jahre"
    ELSE IF p = "Years" THEN "years" ELSE p

\* str.lower() of a text
Lower(text) == [i \in 1..Len(text) |-> LowerPiece(text[i])]

\* len() of a piece
PieceLen(p) ==
    IF p \in {"Senior", "senior"} THEN 6
    ELSE IF p \in {"Jahre", "jahre", "Years", "years"} THEN 5
    ELSE IF p \in {".net", "year"} THEN 4
    ELSE IF p = "c#" THEN 2 ELSE 1

\* len() of a text
RECURSIVE StrLen(_)
StrLen(text) == IF text = <<>> THEN 0 ELSE PieceLen(Head(text)) + StrLen(Tail(text))

\* the first, the last character of a piece is a word character (\w)
FirstIsWord(p) == p \notin {" ", "+", ".net"}
LastIsWord(p) == p \notin {" ", "+", "c#"}

\* \b holds in front of piece i, behind piece i: of the two characters at
\* that place exactly one is a word character (the ends of the text count
\* as non-word)
BoundaryBefore(text, i) ==
    FirstIsWord(text[i]) # (i > 1 /\ LastIsWord(text[i - 1]))
BoundaryAfter(text, i) ==
    LastIsWord(text[i]) # (i < Len(text) /\ FirstIsWord(text[i + 1]))

\* str.contains(r'\b(?:' + '|'.join(keywords) + r')\b', regex=True) on a
\* lower-cased text
Contains(text, keywords) ==
    \E i \in 1..Len(text) :
        text[i] \in keywords /\ BoundaryBefore(text, i) /\ BoundaryAfter(text, i)

IsDigit(p) == p \in {"3", "7"}
DigitValue(p) == IF p = "3" THEN 3 ELSE 7

\* the text starts, at piece k, with "year" or "jahr"
StartsYear(text, k) == k <= Len(text) /\ text[k] \in {"jahre", "years", "year"}

\* the place behind \+? and behind \s* from piece k on
AfterPlus(text, k) == IF k <= Len(text) /\ text[k] = "+" THEN k + 1 ELSE k
RECURSIVE AfterSpaces(_, _)
AfterSpaces(text, k) ==
    IF k <= Len(text) /\ text[k] = " " THEN AfterSpaces(text, k + 1) ELSE k

\* int() of the digits from piece i to piece j
RECURSIVE RunValue(_, _, _)
RunValue(text, i, j) ==
    IF i > j THEN 0 ELSE RunValue(text, i, j - 1) * 10 + DigitValue(text[j])

\* re.findall(r'(\d+)\+?\s*(?:years?|jahr)', text) as integers: every
\* maximal run of digits that is followed by an optional plus sign, blanks
\* and "year" or "jahr"
YearMatches(text) ==
    {RunValue(text, i, j) : <<i, j>> \in
        {<<a, b>> \in (1..Len(text)) \X (1..Len(text)) :
            /\ a <= b
            /\ \A k \in a..b : IsDigit(text[k])
            /\ (a = 1 \/ ~IsDigit(text[a - 1]))
            /\ (b = Len(text) \/ ~IsDigit(text[b + 1]))
            /\ StartsYear(text, AfterSpaces(text, AfterPlus(text, b + 1)))}}

Max(S) == CHOOSE m \in S : \A n \in S : n <= m

HasColumn ==
    [seniority |-> "has_seniority",
     languages |-> "has_languages",
     frameworks |-> "has_frameworks",
     databases |-> "has_databases",
     cloud |-> "has_cloud",
     data_ai |-> "has_data_ai",
     methodologies |-> "has_methodologies",
     management |-> "has_management",
     education |-> "has_education",
     experience |-> "has_experience",
     domains |-> "has_domains",
     company_type |-> "has_company_type",
     benefits |-> "has_benefits"]

\* a plausible slip: a keyword added to one copy of the lists only
train_keyword_groups_Drifted ==
    [seniority |->
        {"senior", "lead", "principal", "staff", "junior", "entry",
         "experienced", "expert", "chief", "head of", "director", "vp",
         "leitend", "erfahren", "anfänger", "einsteiger", "fachlich",
         "leiter", "direktor", "x"},
     languages |->
        {"python", "java", "javascript", "typescript", "c++", "c#",
         "ruby", "go", "rust", "scala", "kotlin", "swift", "php", "r"},
     frameworks |->
        {"react", "angular", "vue", "django", "flask", "spring",
         "node.js", "express", ".net", "tensorflow", "pytorch", "keras"},
     databases |->
        {"sql", "mysql", "postgresql", "mongodb", "oracle", "redis",
         "elasticsearch", "cassandra", "dynamodb", "neo4j"},
     cloud |->
        {"aws", "azure", "gcp", "cloud", "docker", "kubernetes", "k8s",
         "terraform", "ansible", "jenkins", "gitlab", "ci/cd", "devops"},
     data_ai |->
        {"machine learning", "deep learning", "ai", "data science",
         "analytics", "big data", "etl", "data warehouse", "spark",
         "hadoop", "tableau", "power bi", "künstliche intelligenz",
         "datenwissenschaft", "datenanalyse", "datenlager"},
     methodologies |->
        {"agile", "scrum", "kanban", "waterfall", "test-driven",
         "microservices", "rest", "api", "graphql"},
     management |->
        {"team lead", "leadership", "management", "communication",
         "project management", "stakeholder", "mentor", "architect",
         "teamleitung", "führung", "kommunikation", "projektleitung",
         "architekt"},
     education |->
        {"bachelor", "master", "phd", "doctorate", "degree",
         "university", "certification", "certified",
         "bachelorabschluss", "masterabschluss", "doktor", "abschluss",
         "universität", "zertifizierung", "zertifiziert"},
     experience |->
        {"years of experience", "year experience", "experience in",
         "proven track record", "extensive experience",
         "jahre erfahrung", "erfahrung in", "nachweisliche erfahrung",
         "umfangreiche erfahrung"},
     domains |->
        {"finance", "fintech", "healthcare", "e-commerce", "automotive",
         "telecommunications", "gaming", "security", "blockchain",
         "iot", "finanzen", "gesundheitswesen", "handel", "automobil",
         "telekommunikation", "sicherheit", "internet der dinge"},
     company_type |->
        {"startup", "enterprise", "corporation", "sme", "scale-up",
         "fortune 500", "multinational"},
     benefits |->
        {"remote", "flexible", "home office", "relocation", "visa",
         "bonus", "stock options", "equity", "30 days vacation",
         "flexibel", "heimarbeit", "umzug", "urlaub", "aktienoptionen"}]

\* keyword_groups of train_model.extract_simple_features; a keyword is
\* written as the string its pattern matches
train_keyword_groups ==
    [seniority |->
        {"senior", "lead", "principal", "staff", "junior", "entry",
         "experienced", "expert", "chief", "head of", "director", "vp",
         "leitend", "erfahren", "anfänger", "einsteiger", "fachlich",
         "leiter", "direktor"},
     languages |->
        {"python", "java", "javascript", "typescript", "c++", "c#",
         "ruby", "go", "rust", "scala", "kotlin", "swift", "php", "r"},
     frameworks |->
        {"react", "angular", "vue", "django", "flask", "spring",
         "node.js", "express", ".net", "tensorflow", "pytorch", "keras"},
     databases |->
        {"sql", "mysql", "postgresql", "mongodb", "oracle", "redis",
         "elasticsearch", "cassandra", "dynamodb", "neo4j"},
     cloud |->
        {"aws", "azure", "gcp", "cloud", "docker", "kubernetes", "k8s",
         "terraform", "ansible", "jenkins", "gitlab", "ci/cd", "devops"},
     data_ai |->
        {"machine learning", "deep learning", "ai", "data science",
         "analytics", "big data", "etl", "data warehouse", "spark",
         "hadoop", "tableau", "power bi", "künstliche intelligenz",
         "datenwissenschaft", "datenanalyse", "datenlager"},
     methodologies |->
        {"agile", "scrum", "kanban", "waterfall", "test-driven",
         "microservices", "rest", "api", "graphql"},
     management |->
        {"team lead", "leadership", "management", "communication",
         "project management", "stakeholder", "mentor", "architect",
         "teamleitung", "führung", "kommunikation", "projektleitung",
         "architekt"},
     education |->
        {"bachelor", "master", "phd", "doctorate", "degree",
         "university", "certification", "certified",
         "bachelorabschluss", "masterabschluss", "doktor", "abschluss",
         "universität", "zertifizierung", "zertifiziert"},
     experience |->
        {"years of experience", "year experience", "experience in",
         "proven track record", "extensive experience",
         "jahre erfahrung", "erfahrung in", "nachweisliche erfahrung",
         "umfangreiche erfahrung"},
     domains |->
        {"finance", "fintech", "healthcare", "e-commerce", "automotive",
         "telecommunications", "gaming", "security", "blockchain",
         "iot", "finanzen", "gesundheitswesen", "handel", "automobil",
         "telekommunikation", "sicherheit", "internet der dinge"},
     company_type |->
        {"startup", "enterprise", "corporation", "sme", "scale-up",
         "fortune 500", "multinational"},
     benefits |->
        {"remote", "flexible", "home office", "relocation", "visa",
         "bonus", "stock options", "equity", "30 days vacation",
         "flexibel", "heimarbeit", "umzug", "urlaub", "aktienoptionen"}]

\* keyword_groups of predict_model.extract_simple_features
predict_keyword_groups ==
    [seniority |->
        {"senior", "lead", "principal", "staff", "junior", "entry",
         "experienced", "expert", "chief", "head of", "director", "vp",
         "leitend", "erfahren", "anfänger", "einsteiger", "fachlich",
         "leiter", "direktor"},
     languages |->
        {"python", "java", "javascript", "typescript", "c++", "c#",
         "ruby", "go", "rust", "scala", "kotlin", "swift", "php", "r"},
     frameworks |->
        {"react", "angular", "vue", "django", "flask", "spring",
         "node.js", "express", ".net", "tensorflow", "pytorch", "keras"},
     databases |->
        {"sql", "mysql", "postgresql", "mongodb", "oracle", "redis",
         "elasticsearch", "cassandra", "dynamodb", "neo4j"},
     cloud |->
        {"aws", "azure", "gcp", "cloud", "docker", "kubernetes", "k8s",
         "terraform", "ansible", "jenkins", "gitlab", "ci/cd", "devops"},
     data_ai |->
        {"machine learning", "deep learning", "ai", "data science",
         "analytics", "big data", "etl", "data warehouse", "spark",
         "hadoop", "tableau", "power bi", "künstliche intelligenz",
         "datenwissenschaft", "datenanalyse", "datenlager"},
     methodologies |->
        {"agile", "scrum", "kanban", "waterfall", "test-driven",
         "microservices", "rest", "api", "graphql"},
     management |->
        {"team lead", "leadership", "management", "communication",
         "project management", "stakeholder", "mentor", "architect",
         "teamleitung", "führung", "kommunikation", "projektleitung",
         "architekt"},
     education |->
        {"bachelor", "master", "phd", "doctorate", "degree",
         "university", "certification", "certified",
         "bachelorabschluss", "masterabschluss", "doktor", "abschluss",
         "universität", "zertifizierung", "zertifiziert"},
     experience |->
        {"years of experience", "year experience", "experience in",
         "proven track record", "extensive experience",
         "jahre erfahrung", "erfahrung in", "nachweisliche erfahrung",
         "umfangreiche erfahrung"},
     domains |->
        {"finance", "fintech", "healthcare", "e-commerce", "automotive",
         "telecommunications", "gaming", "security", "blockchain",
         "iot", "finanzen", "gesundheitswesen", "handel", "automobil",
         "telekommunikation", "sicherheit", "internet der dinge"},
     company_type |->
        {"startup", "enterprise", "corporation", "sme", "scale-up",
         "fortune 500", "multinational"},
     benefits |->
        {"remote", "flexible", "home office", "relocation", "visa",
         "bonus", "stock options", "equity", "30 days vacation",
         "flexibel", "heimarbeit", "umzug", "urlaub", "aktienoptionen"}]

\* a plausible slip: min instead of max
train_extract_years_Min(desc) ==
    IF desc.na THEN 0
    ELSE IF YearMatches(Lower(desc.s)) # {}
    THEN CHOOSE m \in YearMatches(Lower(desc.s)) :
             \A n \in YearMatches(Lower(desc.s)) : m <= n
    ELSE 0

\* extract_years(text) of train_model
train_extract_years(desc) ==
    IF desc.na THEN 0
    ELSE IF YearMatches(Lower(desc.s)) # {} THEN Max(YearMatches(Lower(desc.s))) ELSE 0

\* extract_years(text) of predict_model
predict_extract_years(desc) ==
    IF desc.na THEN 0
    ELSE IF YearMatches(Lower(desc.s)) # {} THEN Max(YearMatches(Lower(desc.s))) ELSE 0

\* Series.str.len(): NaN stays NaN
SeriesLen(v) == IF v.na THEN NoNum ELSE StrLen(v.s)

\* the columns a call sets, df[column] = value, on the row df; the other
\* columns of the row stay
SetColumns(df, new) ==
    [c \in DOMAIN df \cup DOMAIN new |-> IF c \in DOMAIN new THEN new[c] ELSE df[c]]

\* extract_simple_features(df) of train_model on a frame of one row
train_extract_simple_features(df) ==
    LET desc_lower == IF df.job_description.na THEN NaN
                      ELSE Str(Lower(df.job_description.s))
        has == [c \in {HasColumn[g] : g \in DOMAIN train_keyword_groups} |->
                   LET g == CHOOSE g \in DOMAIN train_keyword_groups : HasColumn[g] = c
                   IN  IF ~desc_lower.na /\ Contains(desc_lower.s, train_keyword_groups[g])
                       THEN 1 ELSE 0]
    IN  SetColumns(SetColumns(df, has),
                   [desc_lower |-> desc_lower,
                    years_required |-> train_extract_years(df.job_description),
                    desc_length |-> SeriesLen(df.job_description),
                    title_length |-> SeriesLen(df.title)])

\* extract_simple_features(df) of predict_model on a frame of one row
predict_extract_simple_features(df) ==
    LET desc_lower == IF df.job_description.na THEN NaN
                      ELSE Str(Lower(df.job_description.s))
        has == [c \in {HasColumn[g] : g \in DOMAIN predict_keyword_groups} |->
                   LET g == CHOOSE g \in DOMAIN predict_keyword_groups : HasColumn[g] = c
                   IN  IF ~desc_lower.na /\ Contains(desc_lower.s, predict_keyword_groups[g])
                       THEN 1 ELSE 0]
    IN  SetColumns(SetColumns(df, has),
                   [desc_lower |-> desc_lower,
                    years_required |-> predict_extract_years(df.job_description),
                    desc_length |-> SeriesLen(df.job_description),
                    title_length |-> SeriesLen(df.title)])

\* the records the functions are applied to
Titles == {NaN, Str(<<"Senior">>), Str(<<"x", " ", "c#">>)}
FeatureInputs ==
    [op : {"record"},
     df : [title : Titles, job_description : {NaN} \cup {Str(t) : t \in Texts}]]

\* both functions applied to the same record, each once and once more to
\* its own result
ExtractSimpleFeatures ==
    /\ probe.op = "record"
    /\ probe' = [op |-> "extract_simple_features", df |-> probe.df,
                 train |-> train_extract_simple_features(probe.df),
                 predict |-> predict_extract_simple_features(probe.df),
                 train_twice |-> train_extract_simple_features(
                                     train_extract_simple_features(probe.df)),
                 predict_twice |-> predict_extract_simple_features(
                                       predict_extract_simple_features(probe.df))]
    /\ UNCHANGED <<sql, mongo, last, api, pc, run, req, resp, nruns, owed, conns, airflow>>

InitExtract == Quiet /\ probe \in FeatureInputs

NextExtract == ExtractSimpleFeatures

SpecExtract == InitExtract /\ [][NextExtract]_vars

(***************************************************************************)
(* Inference features: prepare_features of src/models/predict_model.py on  *)
(* a frame of one row.  A frame is the sequence of its columns; a column   *)
(* name is <<name>>, and <<column, value>> for the dummy column            *)
(* "column_value" that get_dummies makes.                                  *)
(***************************************************************************)
MaxFeatures == 3

\* a cell that holds v, and a missing cell
Cell(v) == <<v>>
NaCell == <<>>

Column(name, cell) == [name |-> name, value |-> cell]
Names(X) == {X[i].name : i \in 1..Len(X)}
ColumnOf(X, name) == X[CHOOSE i \in 1..Len(X) : X[i].name = name]

\* the keys of keyword_groups in the order of the dict
KeywordGroupOrder ==
    <<"seniority", "languages", "frameworks", "databases", "cloud", "data_ai",
      "methodologies", "management", "education", "experience", "domains",
      "company_type", "benefits">>

\* the frame predict_salary builds for one job and extract_simple_features
\* extends: title, city and the has_cloud flag vary, city may be missing
\* (Null)
InferenceFrame(title, city, has_cloud) ==
    <<Column(<<"title">>, Cell(title)),
      Column(<<"job_description">>, Cell("text")),
      Column(<<"contract_type">>, Cell("permanent")),
      Column(<<"contract_time">>, Cell("full_time")),
      Column(<<"city">>, IF city = Null THEN NaCell ELSE Cell(city)),
      Column(<<"country">>, Cell("Deutschland")),
      Column(<<"latitude">>, Cell(52)),
      Column(<<"longitude">>, Cell(13)),
      Column(<<"desc_lower">>, Cell("text"))>>
    \o [i \in 1..Len(KeywordGroupOrder) |->
           Column(<<HasColumn[KeywordGroupOrder[i]]>>,
                  Cell(IF KeywordGroupOrder[i] = "cloud" THEN has_cloud ELSE 0))]
    \o <<Column(<<"years_required">>, Cell(0)),
         Column(<<"desc_length">>, Cell(4)),
         Column(<<"title_length">>, Cell(3))>>

\* X[col] = X[col].fillna(val) for the columns of values that X has
FillNa(X, values) ==
    [i \in 1..Len(X) |->
        IF Len(X[i].name) = 1 /\ X[i].name[1] \in DOMAIN values /\ X[i].value = NaCell
        THEN Column(X[i].name, Cell(values[X[i].name[1]]))
        ELSE X[i]]

cat_cols == <<"contract_type", "contract_time", "city", "country">>

\* the dummy columns of the columns cols[k..] of a frame of one row: one
\* column per value present, none for a missing value
RECURSIVE Dummies(_, _, _)
Dummies(X, cols, k) ==
    IF k > Len(cols) THEN <<>>
    ELSE LET c == ColumnOf(X, <<cols[k]>>)
         IN  (IF c.value = NaCell THEN <<>>
              ELSE <<Column(<<cols[k], c.value[1]>>, Cell(1))>>)
             \o Dummies(X, cols, k + 1)

\* pd.get_dummies(X, columns=cols): the other columns in their order, then
\* the dummy columns
get_dummies(X, cols) ==
    SelectSeq(X, LAMBDA c : ~(Len(c.name) = 1 /\ c.name[1] \in Members(cols)))
        \o Dummies(X, cols, 1)

\* a plausible slip: an unknown title encoded as 0, the code of a class
TitleEncodedZero(title, classes) ==
    IF \E k \in 1..Len(classes) : classes[k] = title
    THEN (CHOOSE k \in 1..Len(classes) : classes[k] = title) - 1
    ELSE 0

\* le_title.transform([str(x)])[0] if str(x) in le_title.classes_ else -1
TitleEncoded(title, classes) ==
    IF \E k \in 1..Len(classes) : classes[k] = title
    THEN (CHOOSE k \in 1..Len(classes) : classes[k] = title) - 1
    ELSE 0 - 1

\* prepare_features up to "Align columns with training": fill, encode, add
\* title_encoded, drop title
Encode(df, model_data) ==
    LET filled == FillNa(FillNa(df, model_data.median_values), model_data.mode_values)
        dummied == get_dummies(filled, cat_cols)
        title == ColumnOf(dummied, <<"title">>).value[1]
        encoded == Append(dummied, Column(<<"title_encoded">>,
                              Cell(TitleEncoded(title, model_data.classes))))
    IN  SelectSeq(encoded, LAMBDA c : c.name # <<"title">>)

\* for col in feature_columns: if col not in X.columns: X[col] = 0
RECURSIVE AddMissing(_, _, _)
AddMissing(X, feature_columns, k) ==
    IF k > Len(feature_columns) THEN X
    ELSE AddMissing(IF feature_columns[k] \in Names(X) THEN X
                    ELSE Append(X, Column(feature_columns[k], Cell(0))),
                    feature_columns, k + 1)

\* X[feature_columns]: the columns named, in that order; KeyError when one
\* of them is not a column of X
Reindex(X, feature_columns) ==
    IF Members(feature_columns) \subseteq Names(X)
    THEN [error |-> FALSE,
          X |-> [k \in 1..Len(feature_columns) |-> ColumnOf(X, feature_columns[k])]]
    ELSE [error |-> TRUE, X |-> <<>>]

\* a plausible slip: the loop that adds the missing columns left out
prepare_features_NoFill(df, model_data) ==
    Reindex(Encode(df, model_data), model_data.feature_columns)

\* prepare_features(df, model_data)
prepare_features(df, model_data) ==
    Reindex(AddMissing(Encode(df, model_data), model_data.feature_columns, 1),
            model_data.feature_columns)

\* the columns a saved list may name
FeatureNames ==
    {<<"latitude">>, <<"has_cloud">>, <<"city", "Berlin">>, <<"city", "Hamburg">>,
     <<"title_encoded">>}

\* X_train.columns.tolist(): lists of distinct columns
FeatureLists ==
    {l \in UNION {[1..n -> FeatureNames] : n \in 0..MaxFeatures} :
        \A i, j \in 1..Len(l) : i # j => l[i] # l[j]}

\* the bundle train_salary_model saves, as far as prepare_features reads it
Bundles ==
    {[feature_columns |-> l,
      median_values |-> [latitude |-> 52, longitude |-> 13, years_required |-> 0,
                         desc_length |-> 4, title_length |-> 3],
      mode_values |-> [title |-> "dev", contract_type |-> "permanent",
                       contract_time |-> "full_time", city |-> m,
                       country |-> "Deutschland"],
      classes |-> <<"dev">>] : l \in FeatureLists, m \in {"Berlin", "Hamburg"}}

PrepareInputs ==
    {[op |-> "row", df |-> InferenceFrame(t, c, h), model_data |-> b] :
        t \in {"dev", "qa"}, c \in {"Berlin", "Muenchen", Null},
        h \in {0, 1}, b \in Bundles}

\* X = prepare_features(df, model_data) in predict_salary
PrepareFeatures ==
    /\ probe.op = "row"
    /\ probe' = [op |-> "prepare_features", df |-> probe.df,
                 model_data |-> probe.model_data,
                 answer |-> prepare_features(probe.df, probe.model_data)]
    /\ UNCHANGED <<sql, mongo, last, api, pc, run, req, resp, nruns, owed, conns, airflow>>

InitPrepare == Quiet /\ probe \in PrepareInputs

NextPrepare == PrepareFeatures

SpecPrepare == InitPrepare /\ [][NextPrepare]_vars

(***************************************************************************)
(* predict_salary of src/models/predict_model.py for one job, against a    *)
(* bundle saved by a training run that saw the titles of classes, two      *)
(* cities, one country, one contract type and one contract time.           *)
(***************************************************************************)
\* the frame predict_salary builds from its arguments and
\* extract_simple_features extends (latitude, longitude from the medians)
PredictFrame(job_title, contract_type, contract_time, city, country) ==
    <<Column(<<"title">>, Cell(job_title)),
      Column(<<"job_description">>, Cell("text")),
      Column(<<"contract_type">>, Cell(contract_type)),
      Column(<<"contract_time">>, Cell(contract_time)),
      Column(<<"city">>, Cell(city)),
      Column(<<"country">>, Cell(country)),
      Column(<<"latitude">>, Cell(52)),
      Column(<<"longitude">>, Cell(13)),
      Column(<<"desc_lower">>, Cell("text"))>>
    \o [i \in 1..Len(KeywordGroupOrder) |->
           Column(<<HasColumn[KeywordGroupOrder[i]]>>, Cell(0))]
    \o <<Column(<<"years_required">>, Cell(0)),
         Column(<<"desc_length">>, Cell(4)),
         Column(<<"title_length">>, Cell(3))>>

\* X_train.columns.tolist() of the training run: numeric features, has_*
\* flags, the dummies of the values seen, title_encoded
TrainedColumns ==
    <<<<"latitude">>, <<"longitude">>, <<"years_required">>, <<"desc_length">>,
      <<"title_length">>>>
    \o [i \in 1..Len(KeywordGroupOrder) |-> <<HasColumn[KeywordGroupOrder[i]]>>]
    \o <<<<"contract_type", "permanent">>, <<"contract_time", "full_time">>,
         <<"city", "Berlin">>, <<"city", "Hamburg">>, <<"country", "Deutschland">>,
         <<"title_encoded">>>>

\* the bundles of training runs whose titles were classes (sorted, as
\* LabelEncoder keeps them)
TrainedBundles ==
    {[feature_columns |-> TrainedColumns,
      median_values |-> [latitude |-> 52, longitude |-> 13, years_required |-> 0,
                         desc_length |-> 4, title_length |-> 3],
      mode_values |-> [title |-> "dev", contract_type |-> "permanent",
                       contract_time |-> "full_time", city |-> "Berlin",
                       country |-> "Deutschland"],
      classes |-> cl] : cl \in {<<"dev">>, <<"dev", "qa">>}}

\* model.predict(X)[0]: the forest takes a frame with the columns it was
\* fitted on, in that order, and gives one number for the row (here the
\* sum of the cells stands for the forest's value)
RECURSIVE CellSum(_)
CellSum(X) == IF X = <<>> THEN 0 ELSE Head(X).value[1] + CellSum(Tail(X))

ModelPredict(X, model_data) ==
    IF [k \in 1..Len(X) |-> X[k].name] = model_data.feature_columns
       /\ \A k \in 1..Len(X) : X[k].value # NaCell
    THEN [error |-> FALSE, prediction |-> <<CellSum(X)>>, X |-> X]
    ELSE [error |-> TRUE, prediction |-> <<>>, X |-> X]

\* predict_salary(job_title, job_description, contract_type, contract_time,
\* city, country) with the bundle model_data loaded
predict_salary(job_title, contract_type, contract_time, city, country, model_data) ==
    LET df == PredictFrame(job_title, contract_type, contract_time, city, country)
        r == prepare_features(df, model_data)
    IN  IF r.error THEN [error |-> TRUE, prediction |-> <<>>, X |-> <<>>]
        ELSE ModelPredict(r.X, model_data)

PredictInputs ==
    [op : {"job"}, job_title : {"dev", "qa", "ops"},
     contract_type : {"permanent", "contract"},
     contract_time : {"full_time", "part_time"},
     city : {"Berlin", "Hamburg", "Muenchen"},
     country : {"Deutschland", "Schweiz"},
     model_data : TrainedBundles]

PredictSalary ==
    /\ probe.op = "job"
    /\ probe' = [probe EXCEPT !.op = "predict_salary"]
                @@ [answer |-> predict_salary(probe.job_title, probe.contract_type,
                                              probe.contract_time, probe.city,
                                              probe.country, probe.model_data)]
    /\ UNCHANGED <<sql, mongo, last, api, pc, run, req, resp, nruns, owed, conns, airflow>>

InitPredict == Quiet /\ probe \in PredictInputs

NextPredict == PredictSalary

SpecPredict == InitPredict /\ [][NextPredict]_vars

(***************************************************************************)
(* extract_years of both modules on descriptions made of digits, signs,    *)
(* blanks and the words for "year".                                        *)
(***************************************************************************)
MaxYearsText == 5

YearPieces == {"3", "7", "+", " ", "x", "Years", "year", "Jahre"}
YearTexts == UNION {[1..n -> YearPieces] : n \in 0..MaxYearsText}

YearsInputs == [op : {"description"}, desc : {NaN} \cup {Str(t) : t \in YearTexts}]

\* df['years_required'] = df['job_description'].apply(extract_years), in
\* training and at inference
ExtractYears ==
    /\ probe.op = "description"
    /\ probe' = [op |-> "extract_years", desc |-> probe.desc,
                 train |-> train_extract_years(probe.desc),
                 predict |-> predict_extract_years(probe.desc)]
    /\ UNCHANGED <<sql, mongo, last, api, pc, run, req, resp, nruns, owed, conns, airflow>>

InitYears == Quiet /\ probe \in YearsInputs

NextYears == ExtractYears

SpecYears == InitYears /\ [][NextYears]_vars

(***************************************************************************)
(* The cleaning step: clean_job_data of src/etl/transform.py.  A text is   *)
(* the sequence of its characters; a nested object is held by reference,   *)
(* so the copy of a record and the record share it.                        *)
(***************************************************************************)
MaxClean == 1
DESCRIPTION_LIMIT == 5000
SALARY_LIMIT == 1000000

\* str.strip()
RECURSIVE LStrip(_)
LStrip(text) == IF text # <<>> /\ Head(text) = " " THEN LStrip(Tail(text)) ELSE text
RECURSIVE RStrip(_)
RStrip(text) ==
    IF text # <<>> /\ text[Len(text)] = " "
    THEN RStrip(SubSeq(text, 1, Len(text) - 1)) ELSE text
Strip(text) == LStrip(RStrip(text))

\* ' '.join(text.split()) on a stripped text: runs of blanks become one
RECURSIVE Collapse(_)
Collapse(text) ==
    IF Len(text) < 2 THEN text
    ELSE IF text[1] = " " /\ text[2] = " " THEN Collapse(Tail(text))
    ELSE <<Head(text)>> \o Collapse(Tail(text))

\* clean_description(description)
clean_description(description) ==
    IF description = <<>> THEN <<>>
    ELSE LET cleaned == Collapse(Strip(description))
         IN  IF Len(cleaned) > DESCRIPTION_LIMIT
             THEN SubSeq(cleaned, 1, DESCRIPTION_LIMIT) \o <<".", ".", ".">>
             ELSE cleaned

\* normalize_salary(salary); a salary is <<number>>, None is <<>>
normalize_salary(salary) ==
    IF salary = None THEN None
    ELSE IF salary[1] < 0 THEN None
    ELSE IF salary[1] > SALARY_LIMIT THEN None
    ELSE salary

\* ', '.join(area)
RECURSIVE Join(_)
Join(area) ==
    IF Len(area) < 2 THEN area ELSE <<Head(area), ", ">> \o Join(Tail(area))

\* the company and location objects after the statements of the loop body
\* that assign into them
CleanCompany(company) ==
    IF company.dict THEN [company EXCEPT !.display_name = Strip(@)] ELSE company
CleanLocation(location) ==
    IF location.area.list THEN [location EXCEPT !.area = [list |-> FALSE, s |-> Join(@.s)]]
    ELSE location

\* cleaned_job after the loop body of clean_job_data
CleanedJob(job) ==
    [id |-> job.id,
     title |-> IF job.title # <<>> THEN Strip(job.title) ELSE job.title,
     description |-> IF job.description # <<>> THEN clean_description(job.description)
                     ELSE job.description,
     company |-> CleanCompany(job.company),
     location |-> CleanLocation(job.location),
     salary_min |-> normalize_salary(job.salary_min),
     salary_max |-> normalize_salary(job.salary_max)]

\* the fields whose values job and job.copy() share: the nested dicts
SharedObjects == {"company", "location"}

\* the record job as it stands after the loop body: an assignment into a
\* shared object shows in it, an assignment to a key of the copy does not
JobAfter(job) ==
    [f \in DOMAIN job |-> IF f \in SharedObjects THEN CleanedJob(job)[f] ELSE job[f]]

\* clean_job_data(jobs): the list it returns and the list it was given,
\* as it stands afterwards
clean_job_data(jobs) ==
    [cleaned |-> [i \in 1..Len(jobs) |-> CleanedJob(jobs[i])],
     jobs |-> [i \in 1..Len(jobs) |-> JobAfter(jobs[i])]]

RawJobs ==
    [id : {NoId, 1},
     title : {<<"x">>, <<" ", "x">>},
     description : {<<>>, <<"x", " ", " ", "x">>},
     company : {[dict |-> FALSE, display_name |-> <<>>],
                [dict |-> TRUE, display_name |-> <<"x">>],
                [dict |-> TRUE, display_name |-> <<"x", " ">>]},
     location : {[area |-> [list |-> TRUE, s |-> <<"Deutschland", "Berlin">>]],
                 [area |-> [list |-> FALSE, s |-> <<"Berlin">>]]},
     salary_min : {None, <<50>>, <<SALARY_LIMIT + 1>>},
     salary_max : {None, <<-1>>}]

CleanInputs == [op : {"raw"}, jobs : UNION {[1..n -> RawJobs] : n \in 0..MaxClean}]

\* cleaned_jobs = clean_job_data(jobs) in transform_jobs
CleanJobData ==
    /\ probe.op = "raw"
    /\ probe' = [op |-> "clean_job_data", received |-> probe.jobs,
                 jobs |-> clean_job_data(probe.jobs).jobs,
                 cleaned |-> clean_job_data(probe.jobs).cleaned]
    /\ UNCHANGED <<sql, mongo, last, api, pc, run, req, resp, nruns, owed, conns, airflow>>

InitClean == Quiet /\ probe \in CleanInputs

NextClean == CleanJobData

SpecClean == InitClean /\ [][NextClean]_vars

(***************************************************************************)
(* The ETL pipeline of src/main_first_repo.py: extract_jobs over the API   *)
(* client of src/api/adzuna_client.py, transform_jobs, and                 *)
(* load_jobs_to_database.  A call is a function of max_pages, of what      *)
(* becomes of the request for each page, and of whether the database       *)
(* accepts the load; its result tells which steps ran.                     *)
(***************************************************************************)
MaxEtlPages == 2

\* what can become of requests.get for one page: results, no results, no
\* answer within the timeout, an error status
EtlAnswers == {"results", "empty", "timeout", "http_error"}
RequestFails(answer) == answer \in {"timeout", "http_error"}

\* the record the API serves on a page
PageJob(page) ==
    [id |-> page, title |-> <<" ", "x">>, description |-> <<>>,
     company |-> [dict |-> TRUE, display_name |-> <<"x">>],
     location |-> [area |-> [list |-> TRUE, s |-> <<"Deutschland", "Berlin">>]],
     salary_min |-> <<50>>, salary_max |-> None]

\* search_jobs(page=page): every exception becomes AdzunaAPIError
search_jobs(page, answer) ==
    IF RequestFails(answer)
    THEN [raised |-> TRUE, success |-> FALSE, count |-> 0, results |-> <<>>]
    ELSE [raised |-> FALSE, success |-> TRUE,
          count |-> IF answer = "results" THEN 1 ELSE 0,
          results |-> IF answer = "results" THEN <<PageJob(page)>> ELSE <<>>]

\* the loop "for page in range(1, max_pages + 1)" of fetch_multiple_pages
\* from page on, with what it has gathered so far
RECURSIVE FetchLoop(_, _, _, _)
FetchLoop(max_pages, answers, page, acc) ==
    IF page > max_pages THEN acc
    ELSE LET response == search_jobs(page, answers[page])
             asked == [acc EXCEPT !.requested = page]
         IN  IF response.raised THEN asked
             ELSE LET more == [asked EXCEPT !.results = @ \o response.results,
                                            !.total_count = response.count,
                                            !.pages_fetched = @ + 1]
                  IN  IF Len(response.results) = 0 THEN more
                      ELSE FetchLoop(max_pages, answers, page + 1, more)

\* fetch_multiple_pages(max_pages=max_pages): AdzunaAPIError is printed and
\* ends the loop
fetch_multiple_pages(max_pages, answers) ==
    FetchLoop(max_pages, answers, 1,
              [raised |-> FALSE, success |-> TRUE, total_count |-> 0, results |-> <<>>,
               pages_fetched |-> 0, requested |-> 0])

\* extract_jobs(max_pages=max_pages, save_raw=True); requested is the number
\* of the last page it asked for
extract_jobs(max_pages, answers) ==
    LET response == IF max_pages = 1
                    THEN search_jobs(1, answers[1]) @@ [requested |-> 1]
                    ELSE fetch_multiple_pages(max_pages, answers)
    IN  IF response.raised
        THEN [success |-> FALSE, jobs |-> <<>>, count |-> 0,
              requested |-> response.requested]
        ELSE [success |-> TRUE, jobs |-> response.results,
              count |-> Len(response.results), requested |-> response.requested]

\* is_valid_job(job)
is_valid_job(job) == job.id # NoId /\ job.title # <<>> /\ Len(Strip(job.title)) # 0

\* validate_jobs(jobs)
validate_jobs(jobs) == SelectSeq(jobs, is_valid_job)

\* transform_jobs(jobs)
transform_jobs(jobs) ==
    IF jobs = <<>> THEN [success |-> TRUE, jobs |-> <<>>, count |-> 0]
    ELSE LET validated_jobs == validate_jobs(clean_job_data(jobs).cleaned)
         IN  [success |-> TRUE, jobs |-> validated_jobs, count |-> Len(validated_jobs)]

\* load_jobs_to_database(jobs); save_jobs raises when the database does not
\* accept the session.  has_total: the result has the key total_jobs_in_db
load_jobs_to_database(jobs, db_ok) ==
    IF jobs = <<>> THEN [success |-> TRUE, jobs_loaded |-> 0, has_total |-> FALSE]
    ELSE IF db_ok THEN [success |-> TRUE, jobs_loaded |-> Len(jobs), has_total |-> TRUE]
    ELSE [success |-> FALSE, jobs_loaded |-> 0, has_total |-> FALSE]

\* run_etl_pipeline(max_pages=max_pages): the steps it ran and how it ended;
\* the closing log line reads load_result['total_jobs_in_db']
run_etl_pipeline(max_pages, answers, db_ok) ==
    LET extract_result == extract_jobs(max_pages, answers)
        transform_result == transform_jobs(extract_result.jobs)
        load_result == load_jobs_to_database(transform_result.jobs, db_ok)
    IN  IF ~extract_result.success
        THEN [outcome |-> "returned", success |-> FALSE, steps |-> <<"extract">>,
              loaded |-> 0]
        ELSE IF ~transform_result.success
        THEN [outcome |-> "returned", success |-> FALSE,
              steps |-> <<"extract", "transform">>, loaded |-> 0]
        ELSE IF ~load_result.success
        THEN [outcome |-> "returned", success |-> FALSE,
              steps |-> <<"extract", "transform", "load">>, loaded |-> 0]
        ELSE IF ~load_result.has_total
        THEN [outcome |-> "raised", success |-> FALSE,
              steps |-> <<"extract", "transform", "load">>, loaded |-> 0]
        ELSE [outcome |-> "returned", success |-> TRUE,
              steps |-> <<"extract", "transform", "load">>,
              loaded |-> load_result.jobs_loaded]

EtlInputs ==
    [op : {"etl"}, max_pages : 1..MaxEtlPages,
     answers : [1..MaxEtlPages -> EtlAnswers], db_ok : BOOLEAN]

\* run_etl_pipeline(...) called by main or by the Streamlit app
RunEtlPipeline ==
    /\ probe.op = "etl"
    /\ probe' = [op |-> "run_etl_pipeline", max_pages |-> probe.max_pages,
                 answers |-> probe.answers, db_ok |-> probe.db_ok,
                 extract |-> extract_jobs(probe.max_pages, probe.answers),
                 result |-> run_etl_pipeline(probe.max_pages, probe.answers,
                                             probe.db_ok)]
    /\ UNCHANGED <<sql, mongo, last, api, pc, run, req, resp, nruns, owed, conns, airflow>>

InitEtl == Quiet /\ probe \in EtlInputs

NextEtl == RunEtlPipeline

SpecEtl == InitEtl /\ [][NextEtl]_vars

(***************************************************************************)
(* The dashboard's salary midpoint: _to_float and _salary_mid of           *)
(* src/app.py on a row read from the CSV.  A float is [kind, v]: a number, *)
(* the IEEE value nan, or Python's None.                                   *)
(***************************************************************************)
Missing == "<missing>"
NoFloat == [kind |-> "none", v |-> 0]
NanFloat == [kind |-> "nan", v |-> 0]
Float(n) == [kind |-> "float", v |-> n]

\* the cells of a row: no such key, None, and texts
SalaryCells == {Missing, Null, "", " ", "abc", "nan", "50000", " 70000 "}

\* str(v).strip() on the texts above
StripCell(v) ==
    IF v = " " THEN "" ELSE IF v = " 70000 " THEN "70000" ELSE v

\* float(v): the number a numeral denotes, nan for the text 'nan', and
\* ValueError (ok FALSE) for any other text
ParseFloat(v) ==
    IF v = "50000" THEN [ok |-> TRUE, value |-> Float(50000)]
    ELSE IF v = "70000" THEN [ok |-> TRUE, value |-> Float(70000)]
    ELSE IF v = "nan" THEN [ok |-> TRUE, value |-> NanFloat]
    ELSE [ok |-> FALSE, value |-> NoFloat]

\* _to_float(v); row.get(key) gives None for a missing key
_to_float(v) ==
    IF v \in {Missing, Null} THEN NoFloat
    ELSE IF StripCell(v) = "" THEN NoFloat
    ELSE IF ParseFloat(StripCell(v)).ok THEN ParseFloat(StripCell(v)).value
    ELSE NoFloat

\* (smin + smax) / 2.0 in float arithmetic; the numbers used are even
Mid(smin, smax) ==
    IF smin.kind = "nan" \/ smax.kind = "nan" THEN NanFloat
    ELSE Float((smin.v + smax.v) \div 2)

\* _salary_mid(row)
_salary_mid(row) ==
    LET smin == _to_float(row.salary_min)
        smax == _to_float(row.salary_max)
    IN  IF smin = NoFloat /\ smax = NoFloat THEN NoFloat
        ELSE IF smin = NoFloat THEN smax
        ELSE IF smax = NoFloat THEN smin
        ELSE Mid(smin, smax)

SalaryInputs == [op : {"row"}, row : [salary_min : SalaryCells, salary_max : SalaryCells]]

\* _salary_mid(r) for a row r of the CSV
SalaryMid ==
    /\ probe.op = "row"
    /\ probe' = [op |-> "_salary_mid", row |-> probe.row, mid |-> _salary_mid(probe.row)]
    /\ UNCHANGED <<sql, mongo, last, api, pc, run, req, resp, nruns, owed, conns, airflow>>

InitSalary == Quiet /\ probe \in SalaryInputs

NextSalary == SalaryMid

SpecSalary == InitSalary /\ [][NextSalary]_vars

(***************************************************************************)
(* Properties of the store functions, checked under SpecStore.  Every      *)
(* step of SpecStore is one call; last' describes it, and the unprimed     *)
(* stores are the stores before the call.                                  *)
(***************************************************************************)
JobIds(db) == {r.job_id : r \in db.job}
DocIds(coll) == {d.id : d \in coll}

\* index of the first record of the batch that carries id
FirstOf(jobs, id) ==
    CHOOSE i \in 1..Len(jobs) :
        jobs[i].id = id /\ \A k \in 1..(i - 1) : jobs[k].id # id

\* C1: a store function called again with the batch it has just returned
\* for returns 0 and adds no job row (store_jobs_sql), no document
\* (store_jobs_nosql); the repeated call fails only when the store does.
C1_Idempotent ==
    [][(last'.again /\ last'.fault = "none") =>
          /\ last'.ok
          /\ last'.ret = 0
          /\ sql'.job = sql.job
          /\ mongo' = mongo]_vars

C1_Witness ==
    /\ last.op = "sql" /\ last.again /\ last.ok /\ last.ret = 0
    /\ Len(last.batch) > 1
    /\ BatchIds(last.batch) \subseteq JobIds(sql)

\* C7: a store_jobs_sql call that returns, returns the number of distinct
\* ids of the batch that had no job row before the call; every job row that
\* existed before the call is still there unchanged; and a row the call adds
\* carries the fields of the first record of the batch with that id and
\* points to the dimension rows of that record.
C7_SqlCountFirstWins ==
    [][(last'.op = "sql") =>
          /\ \A r \in sql.job : r \in sql'.job
          /\ last'.ok =>
               /\ last'.ret = Cardinality(BatchIds(last'.batch) \ JobIds(sql))
               /\ JobIds(sql') = JobIds(sql) \cup BatchIds(last'.batch)
               /\ Cardinality(sql'.job) = Cardinality(JobIds(sql'))
               /\ \A r \in sql'.job \ sql.job :
                     LET j == last'.batch[FirstOf(last'.batch, r.job_id)]
                     IN  /\ r.title = j.title /\ r.created = j.created
                         /\ r.salary_min = j.salary_min
                         /\ r.salary_max = j.salary_max
                         /\ \E c \in sql'.company : c.company_id = r.company_id
                                                   /\ c.company_name = j.company
                         /\ \E c \in sql'.category : c.category_id = r.category_id
                                                    /\ c.tag = j.tag
                         /\ \E c \in sql'.location : c.location_id = r.location_id
                                                    /\ c.display_name = j.display_name
      ]_vars

\* the job row of id 1 was written from J1; a later batch that carries J1b
\* (same id, other contents) twice and a new id returned 1
C7_Witness ==
    /\ last.op = "sql" /\ last.ok /\ last.ret = 1
    /\ \E i \in 1..Len(last.batch) : last.batch[i] = J1b
    /\ \E r \in sql.job : r.job_id = J1.id /\ r.title = J1.title
    /\ Cardinality(sql.job) > 1

\* C8: store_jobs_nosql, returning or failing, leaves every stored document
\* as it was; when it returns, the collection holds exactly one document for
\* each id of the batch that was not stored, equal to the first record of
\* the batch with that id, and the value returned is their number.
C8_NosqlInsertOnly ==
    [][(last'.op = "nosql") =>
          /\ \A d \in mongo : d \in mongo'
          /\ last'.ok =>
               /\ DocIds(mongo') = DocIds(mongo) \cup BatchIds(last'.batch)
               /\ Cardinality(mongo') = Cardinality(DocIds(mongo'))
               /\ last'.ret = Cardinality(mongo' \ mongo)
               /\ last'.ret = Cardinality(BatchIds(last'.batch) \ DocIds(mongo))
               /\ \A d \in mongo' \ mongo :
                     d = last'.batch[FirstOf(last'.batch, d.id)]
      ]_vars

C8_Witness ==
    /\ last.op = "nosql" /\ last.ok /\ last.ret = 1
    /\ last.batch = <<J1b, J2>>
    /\ J1 \in mongo /\ J2 \in mongo /\ J1b \notin mongo

\* C9 (state part): no two rows of a dimension table share a non-null key or
\* a surrogate id, and every job row points to existing dimension rows
DimensionsSound ==
    /\ \A a, b \in sql.company :
          (a.company_id = b.company_id
             \/ (a.company_name # Null /\ a.company_name = b.company_name)) => a = b
    /\ \A a, b \in sql.category :
          (a.category_id = b.category_id \/ (a.tag # Null /\ a.tag = b.tag)) => a = b
    /\ \A a, b \in sql.location :
          (a.location_id = b.location_id
             \/ (a.display_name # Null /\ a.display_name = b.display_name)) => a = b
    /\ \A r \in sql.job :
          /\ \E c \in sql.company : c.company_id = r.company_id
          /\ \E c \in sql.category : c.category_id = r.category_id
          /\ \E c \in sql.location : c.location_id = r.location_id

\* C9 (step part): a committed dimension row keeps its key and surrogate id
DimensionIdsStable ==
    /\ \A a \in sql.company : \E b \in sql'.company :
          b.company_id = a.company_id /\ b.company_name = a.company_name
    /\ \A a \in sql.category : \E b \in sql'.category :
          b.category_id = a.category_id /\ b.tag = a.tag
    /\ \A a \in sql.location : \E b \in sql'.location :
          b.location_id = a.location_id /\ b.display_name = a.display_name

\* C9: after any sequence of store_jobs_sql calls each dimension table holds
\* at most one row per (non-null) company name, category tag and location
\* display name, a key keeps the surrogate id it was committed with, and
\* every job row's company_id, location_id and category_id refer to an
\* existing dimension row.
C9_Dimensions == []DimensionsSound /\ [][DimensionIdsStable]_vars

\* two job rows of different ids share their company and category rows
\* after three calls
C9_Witness ==
    /\ last.op = "sql" /\ last.phase = "repeated"
    /\ \E a, b \in sql.job :
          /\ a.job_id # b.job_id
          /\ a.company_id = b.company_id
          /\ a.category_id = b.category_id
          /\ a.location_id # b.location_id

\* the records of a batch that carry no id
BadRows(jobs) == {i \in 1..Len(jobs) : jobs[i].id = NoId}

\* C10 (as claimed): when one job of a batch makes its insert fail,
\* store_jobs_sql still returns and the other jobs of the batch are stored.
C10_BadRowSkipped ==
    (last.op = "sql" /\ last.fault = "none" /\ Cardinality(BadRows(last.batch)) = 1) =>
        /\ last.ok
        /\ (BatchIds(last.batch) \ {NoId}) \subseteq JobIds(sql)

(***************************************************************************)
(* Properties of fetch_jobs, main and the endpoint, checked under Spec.    *)
(***************************************************************************)
\* the page holds results and none of them is newer than the cutoff
OnlyOld(newest_seen, page_results) ==
    /\ newest_seen # None
    /\ page_results # <<>>
    /\ \A k \in 1..Len(page_results) : page_results[k].created <= newest_seen[1]

JobsOf(jobs) == {jobs[i] : i \in 1..Len(jobs)}

\* C2 (as claimed): in a fetch_jobs call with a cutoff, a requested page
\* that holds only items at or before the cutoff is the last page requested
\* in that call, none of its items is returned, and next_start_page is
\* greater than its number.
C2_StopsAtOldPage ==
    run.fetch_returned =>
        \A i \in 1..Len(run.requested) :
            OnlyOld(run.fetch_from, PageResults(run.requested[i])) =>
                /\ i = Len(run.requested)
                /\ JobsOf(PageResults(run.requested[i])) \cap JobsOf(run.jobs) = {}
                /\ run.next_start_page > run.requested[i]

\* C3: when fetch_jobs returns, next_start_page is the number of the last
\* page requested plus 1 (also after an empty page or an early stop), and
\* start_page when no page was requested; so it is never below start_page,
\* above it whenever max_pages >= 1, and main returns that same value.
C3_NextStartPage ==
    run.fetch_returned =>
        /\ run.next_start_page =
              (IF run.requested = <<>> THEN run.start_page
               ELSE run.requested[Len(run.requested)] + 1)
        /\ run.next_start_page >= run.start_page
        /\ run.max_pages >= 1 => run.next_start_page > run.start_page
        /\ run.outcome = "returned" =>
              run.result[1].next_start_page = run.next_start_page

\* a run that returned after a page dropped by the cutoff and a final
\* empty page
C3_Witness ==
    /\ run.outcome = "returned"
    /\ Len(run.requested) > 1
    /\ PageResults(run.requested[Len(run.requested)]) = <<>>
    /\ \E i \in 1..Len(run.requested) :
          EarlyStop(run.fetch_from, PageResults(run.requested[i]))
    /\ run.start_page > 1

\* C4 (as claimed): store_jobs_nosql is never called before store_jobs_sql,
\* and a run whose store_jobs_sql failed still calls store_jobs_nosql with
\* the same batch.
C4_IndependentStores ==
    /\ run.nosql_called => run.sql_called
    /\ (run.outcome \in {"raised", "returned"} /\ run.sql_called /\ ~run.sql_ok) =>
          (run.nosql_called /\ run.nosql_batch = run.sql_batch)

\* C5 (as claimed): after a run committed a batch to Postgres and failed
\* before MongoDB held all of it, a later run from the same start page (and
\* over as many pages) that returns leaves every job of that batch in both
\* stores.
C5_SelfHealing ==
    (pc = "idle" /\ run.outcome = "returned" /\ owed.ids # {}
       /\ run.start_page = owed.start_page /\ run.max_pages = owed.max_pages) =>
        /\ owed.ids \subseteq JobIds(sql)
        /\ owed.ids \subseteq DocIds(mongo)

\* C6 (as claimed): an accepted ingestion request with start_page s and
\* max_pages m has run main from page s over at most m pages, and the answer
\* carries main's jobs_fetched and next_start_page.
C6_RequestHonoured ==
    (pc = "idle" /\ run.via = "endpoint" /\ run.outcome = "returned" /\ req.has_body) =>
        /\ run.start_page = req.start_page
        /\ Len(run.requested) <= req.max_pages
        /\ "jobs_fetched" \in DOMAIN resp.body
        /\ "next_start_page" \in DOMAIN resp.body
        /\ resp.body.jobs_fetched = run.result[1].jobs_fetched
        /\ resp.body.next_start_page = run.result[1].next_start_page

(***************************************************************************)
(* Failures, connections and delays.                                       *)
(***************************************************************************)
\* the committed rows of the relational store, sequences aside
Rows(db) == [db EXCEPT !.seq = EmptySql.seq]

\* C11: a store_jobs_sql call that fails part-way through a batch commits
\* no row of it, job or dimension: every table is as it was before the
\* call; and a store_jobs_nosql call that fails after store_jobs_sql has
\* returned leaves the relational store as store_jobs_sql committed it,
\* with every job of the batch in it.
C11_NoPartialCommit ==
    [][/\ (pc = "sql" /\ run'.error = <<"store_jobs_sql", "insert">>) =>
             Rows(sql') = Rows(sql)
       /\ (pc = "nosql" /\ run'.outcome = "raised") =>
             /\ sql' = sql
             /\ BatchIds(run.sql_batch) \subseteq JobIds(sql')]_vars

\* a run whose store_jobs_sql failed at the second job of its batch, after
\* the first job and its company had been written inside the transaction
C11_Witness ==
    /\ run.error = <<"store_jobs_sql", "insert">>
    /\ Len(run.sql_batch) > 1
    /\ run.sql_batch[1].id # NoId
    /\ run.sql_batch[1].company # Null
    /\ run.sql_batch[1].id \notin JobIds(sql)

\* C12 (as claimed): after get_latest_job_date_sql or store_jobs_sql has
\* returned or raised, no relational connection that the call opened is
\* open.
C12_ConnectionsClosed == conns.pg = 0

\* C13: after store_jobs_nosql has returned or raised (failed ping, failed
\* index creation, failed upsert of any job of the batch), the client it
\* opened is closed.
C13_ClientClosed == last.op = "nosql" => conns.mongo = 0

\* a call that failed at an upsert after it had written a document
C13_Witness ==
    /\ last.op = "nosql" /\ last.fault = "upsert" /\ ~last.ok
    /\ mongo # {}

\* a page request of the run has failed
FetchFailed(r) == r.error # <<>> /\ r.error[1] = "fetch_jobs"

\* C14: when a page request fails (error status or connection failure; no
\* request of fetch_jobs can time out), fetch_jobs raises and returns
\* nothing, so that the records of the pages fetched before are dropped and
\* no next_start_page exists; main raises without having called either
\* store function, and the step leaves both stores as they were.
C14_FetchFailureAborts ==
    /\ [](FetchFailed(run) =>
            /\ run.outcome = "raised"
            /\ ~run.fetch_returned /\ run.next_start_page = NoRun.next_start_page
            /\ run.result = None
            /\ ~run.sql_called /\ ~run.nosql_called)
    /\ [][FetchFailed(run') => (sql' = sql /\ mongo' = mongo)]_vars

\* the request for a second page failed after a first page with records
C14_Witness ==
    /\ FetchFailed(run)
    /\ Len(run.requested) > 1
    /\ run.jobs # <<>>

\* C15 (as claimed): no page request of fetch_jobs waits without bound for
\* an answer: an unanswered request ends in a timeout error.
C15_RequestsBounded == pc # "blocked"

\* some function called by main has failed in this run
SomethingFailed(r) ==
    \/ r.error # <<>>
    \/ r.sql_called /\ ~r.sql_ok
    \/ r.nosql_called /\ ~r.nosql_ok

\* C16: a run in which get_latest_job_date_sql, fetch_jobs, store_jobs_sql
\* or store_jobs_nosql failed has raised and has no result, and the
\* endpoint has answered it with status 500 and a detail that names the
\* error, not with the accepted answer; a run that returned had no failure;
\* and a missing or empty job table makes get_latest_job_date_sql return
\* None without an error.
C16_FailuresReachCaller ==
    /\ [](SomethingFailed(run) =>
            /\ run.outcome = "raised" /\ run.result = None /\ run.error # <<>>
            /\ run.via = "endpoint" =>
                  /\ resp.code = 500
                  /\ resp.body.detail = <<"Ingestion failed">> \o run.error
                  /\ "status" \notin DOMAIN resp.body)
    /\ [](run.outcome = "returned" => ~SomethingFailed(run))
    /\ [][(pc = "latest" /\ pc' # "idle" /\ (~sql.tables \/ sql.job = {})) =>
             (run'.fetch_from = None /\ run'.error = <<>>)]_vars

\* a request to the endpoint whose run failed in the document store after
\* the relational store had taken the batch
C16_Witness ==
    /\ run.via = "endpoint"
    /\ run.error = <<"store_jobs_nosql", "upsert">>
    /\ run.sql_ok
    /\ resp.code = 500

\* C17: a page request that is not the first of its fetch_jobs call is
\* issued after exactly one delay of 2.5 seconds since the request before
\* it, also when the page before was skipped by the cutoff.
C17_DelayBetweenRequests ==
    (pc = "request" /\ run.requested # <<>>) => run.waited = DELAY_TENTHS

\* the next request is due after a page that the cutoff skipped
C17_Witness ==
    /\ pc = "request"
    /\ run.requested # <<>>
    /\ run.early_stop

(***************************************************************************)
(* Properties of get_jobs, checked under SpecQuery.                        *)
(***************************************************************************)
\* the names the endpoint serves from the relational store and from the
\* document store
RelationalColumns == Members(sql_columns)
DocumentColumns == Members(mongo_columns)

\* the requested names, in the order and number requested, that are in
\* neither list
InvalidRequested(columns) ==
    SelectSeq(columns, LAMBDA col : col \notin RelationalColumns \cup DocumentColumns)

Answered == probe.op \in {"get_jobs", "api_main.get_jobs"}

\* C18: a get_jobs call whose column list holds a name outside the
\* allow-list answers 400 with exactly the requested names that are not in
\* the allow-list, and has accessed no store; a call whose columns are all
\* relational has not opened the document store.  Both implementations.
C18_InvalidColumns ==
    Answered =>
        /\ InvalidRequested(probe.columns) # <<>> =>
              /\ probe.answer.code = 400
              /\ probe.answer.columns = InvalidRequested(probe.columns)
              /\ probe.answer.opened = <<>>
        /\ Members(probe.columns) \subseteq RelationalColumns =>
              "mongo" \notin Members(probe.answer.opened)

\* a request that mixes a relational, a document and an invalid name
C18_Witness ==
    /\ probe.op = "get_jobs"
    /\ Members(probe.columns) \cap RelationalColumns # {}
    /\ Members(probe.columns) \cap DocumentColumns # {}
    /\ Len(InvalidRequested(probe.columns)) = 1
    /\ probe.answer.code = 400

(***************************************************************************)
(* Properties of the feature code, checked under SpecExtract.              *)
(***************************************************************************)
\* the feature columns the two functions are compared on
HasColumns == {HasColumn[g] : g \in DOMAIN HasColumn}
ComparedColumns == HasColumns \cup {"years_required", "desc_length", "title_length"}

\* C19: on every record the two extract_simple_features give the same 13
\* has_* flags, years_required, desc_length and title_length, and each of
\* them gives the same values again when applied to its own result.
C19_SameFeatures ==
    probe.op = "extract_simple_features" =>
        /\ Cardinality(HasColumns) = 13
        /\ ComparedColumns \subseteq DOMAIN probe.train \cap DOMAIN probe.predict
        /\ \A c \in ComparedColumns :
              /\ probe.train[c] = probe.predict[c]
              /\ probe.train_twice[c] = probe.train[c]
              /\ probe.predict_twice[c] = probe.predict[c]

\* a description with a keyword in upper case and a number of years
C19_Witness ==
    /\ probe.op = "extract_simple_features"
    /\ probe.train.has_frameworks = 1
    /\ probe.predict.years_required = 7
    /\ probe.train.title_length > 1

\* the columns the row gives after filling and encoding
Produced == Encode(probe.df, probe.model_data)

\* C20: the frame prepare_features returns has exactly the saved
\* feature_columns, in the saved order; a saved column the row does not
\* produce holds 0, every other one the value the row produces; columns
\* that were not saved are gone; and no missing-column error occurs.
C20_SavedColumns ==
    probe.op = "prepare_features" =>
        LET saved == probe.model_data.feature_columns
            X == probe.answer.X
        IN  /\ ~probe.answer.error
            /\ Len(X) = Len(saved)
            /\ \A k \in 1..Len(saved) :
                  /\ X[k].name = saved[k]
                  /\ X[k].value = IF saved[k] \in Names(Produced)
                                  THEN ColumnOf(Produced, saved[k]).value
                                  ELSE Cell(0)

\* a saved list that names a column the row does not produce before one it
\* produces, for a row with columns that were not saved
C20_Witness ==
    /\ probe.op = "prepare_features"
    /\ Len(probe.model_data.feature_columns) > 1
    /\ probe.model_data.feature_columns[1] \notin Names(Produced)
    /\ probe.model_data.feature_columns[2] \in Names(Produced)
    /\ Names(Produced) \ Members(probe.model_data.feature_columns) # {}

(***************************************************************************)
(* Properties of predict_salary, checked under SpecPredict.                *)
(***************************************************************************)
\* the code LabelEncoder gave a title in training: its place, from 0, among
\* the sorted titles
TrainingCode(title, classes) ==
    Cardinality({k \in 1..Len(classes) : classes[k] # title /\ k <
                    (CHOOSE j \in 1..Len(classes) : classes[j] = title)})

\* C21: predict_salary returns one number whatever the title, city,
\* country, contract type and contract time, seen in training or not; the
\* title reaches the model as -1 when the encoder does not know it and as
\* its training-time code when it does.
C21_UnknownTitle ==
    probe.op = "predict_salary" =>
        /\ ~probe.answer.error
        /\ Len(probe.answer.prediction) = 1
        /\ ColumnOf(probe.answer.X, <<"title_encoded">>).value =
              Cell(IF probe.job_title \in Members(probe.model_data.classes)
                   THEN TrainingCode(probe.job_title, probe.model_data.classes)
                   ELSE 0 - 1)

\* a job whose title, city, country and contract were all unseen
C21_Witness ==
    /\ probe.op = "predict_salary"
    /\ probe.job_title \notin Members(probe.model_data.classes)
    /\ probe.city = "Muenchen" /\ probe.country = "Schweiz"
    /\ probe.contract_type = "contract" /\ probe.contract_time = "part_time"
    /\ probe.answer.prediction # <<>>

(***************************************************************************)
(* Properties of extract_years, checked under SpecYears.                   *)
(***************************************************************************)
\* a word for "year", in any case
IsYearWord(p) == p \in {"year", "Years", "Jahre"}

\* piece k, after blanks, is a word for "year"
RECURSIVE YearAfterBlanks(_, _)
YearAfterBlanks(text, k) ==
    /\ k <= Len(text)
    /\ IF text[k] = " " THEN YearAfterBlanks(text, k + 1) ELSE IsYearWord(text[k])

\* the integers N that occur in the text followed by an optional plus
\* sign, optional blanks and a word for "year"
Occurrences(text) ==
    {RunValue(text, a, b) : <<a, b>> \in
        {<<a, b>> \in (1..Len(text)) \X (1..Len(text)) :
            /\ a <= b
            /\ \A k \in a..b : text[k] \in {"3", "7"}
            /\ \/ YearAfterBlanks(text, b + 1)
               \/ b < Len(text) /\ text[b + 1] = "+" /\ YearAfterBlanks(text, b + 2)}}

\* C22: years_required is the largest N that occurs in the description
\* followed by an optional '+', optional blanks and 'year', 'years' or
\* 'jahr...' in any case, and 0 when there is none or the description is
\* missing; in training and at inference.
C22_YearsRequired ==
    probe.op = "extract_years" =>
        LET expected == IF probe.desc.na \/ Occurrences(probe.desc.s) = {} THEN 0
                        ELSE Max(Occurrences(probe.desc.s))
        IN  probe.train = expected /\ probe.predict = expected

\* a description with two occurrences, the larger number first, one of
\* them with a plus sign
C22_Witness ==
    /\ probe.op = "extract_years"
    /\ ~probe.desc.na
    /\ Cardinality(Occurrences(probe.desc.s)) = 2
    /\ probe.desc.s[1] = "7" /\ probe.desc.s[2] = "+"
    /\ probe.train = 7

(***************************************************************************)
(* Properties of the keyword flags, checked under SpecExtract.             *)
(***************************************************************************)
\* piece i of the text is a keyword standing as a whole word: no letter,
\* digit or underscore touches it on either side
WholeWord(text, keywords) ==
    \E i \in 1..Len(text) :
        /\ text[i] \in keywords
        /\ (i = 1 \/ ~LastIsWord(text[i - 1]))
        /\ (i = Len(text) \/ ~FirstIsWord(text[i + 1]))

\* C23: for each of the 13 categories has_<category> is 1 exactly when a
\* keyword of the category occurs in the description as a whole word, in
\* any case, and 0 otherwise (0 for a missing description); also for the
\* keywords that begin or end with a non-letter: 'c++', 'c#', '.net'.
C23_WholeWordFlags ==
    probe.op = "extract_simple_features" =>
        \A g \in DOMAIN predict_keyword_groups :
            LET desc == probe.df.job_description
                expected == IF ~desc.na /\ WholeWord(Lower(desc.s), predict_keyword_groups[g])
                            THEN 1 ELSE 0
            IN  /\ probe.predict[HasColumn[g]] = expected
                /\ probe.train[HasColumn[g]] = expected

(***************************************************************************)
(* Properties of the cleaning step, checked under SpecClean.               *)
(***************************************************************************)
\* C24: no pipeline operation modifies a fetched job record: after
\* clean_job_data has processed a batch, every input record, its nested
\* company and location objects included, has the fields and values it
\* was received with.
C24_RecordsUnmodified ==
    probe.op = "clean_job_data" => probe.jobs = probe.received

(***************************************************************************)
(* Properties of the salary midpoint, checked under SpecSalary.            *)
(***************************************************************************)
\* the cells that hold a number, and the number each holds
Numerals == {"50000", " 70000 "}
NumberOf(v) == IF v = "50000" THEN 50000 ELSE 70000

\* C25: _salary_mid returns (salary_min + salary_max) / 2 when both bounds
\* are present, the present bound when exactly one is, and None when
\* neither is; a bound that is missing, blank or not a number is absent.
C25_SalaryMid ==
    probe.op = "_salary_mid" =>
        LET lo == probe.row.salary_min
            hi == probe.row.salary_max
        IN  probe.mid =
                IF lo \in Numerals /\ hi \in Numerals
                THEN Float((NumberOf(lo) + NumberOf(hi)) \div 2)
                ELSE IF lo \in Numerals THEN Float(NumberOf(lo))
                ELSE IF hi \in Numerals THEN Float(NumberOf(hi))
                ELSE NoFloat

(***************************************************************************)
(* Properties of the DAG, checked under SpecDag.                           *)
(***************************************************************************)
\* the endpoint has answered the DAG's request with a success status
AnsweredSuccess == resp.code >= 200 /\ resp.code < 300
\* ingest and train have ended, or train was never started
IngestEnded == airflow.ingest \in {"success", "failed"}
TrainDecided == airflow.train # "none"
TrainRan == airflow.train \in {"success", "failed"}

\* C26: train starts only after ingest has succeeded; when the endpoint
\* answers the ingest request with a success status, ingest succeeds, the
\* Variable start_page holds the response's next_start_page and train is
\* run; when it answers with an error, start_page is unchanged and train
\* is not run.
C26_IngestThenTrain ==
    /\ TrainRan => airflow.ingest = "success"
    /\ (IngestEnded /\ AnsweredSuccess) =>
          /\ airflow.ingest = "success"
          /\ "next_start_page" \in DOMAIN resp.body
          /\ airflow.start_page = resp.body.next_start_page
    /\ (TrainDecided /\ AnsweredSuccess) => TrainRan
    /\ (IngestEnded /\ resp.code >= 400) => airflow.start_page = airflow.payload.start_page
    /\ (TrainDecided /\ resp.code >= 400) => ~TrainRan

(***************************************************************************)
(* Properties of the cutoff of fetch_jobs, checked under Spec.             *)
(***************************************************************************)
\* C27: in a fetch_jobs call with a cutoff T, every job with created > T
\* on a page requested in that call is among the returned jobs (a page is
\* discarded only when all its items have created <= T), and every
\* returned job has created > T.
C27_NewerJobsReturned ==
    (run.fetch_returned /\ run.fetch_from # None) =>
        /\ \A i \in 1..Len(run.requested) :
              \A j \in JobsOf(PageResults(run.requested[i])) :
                  j.created > run.fetch_from[1] => j \in JobsOf(run.jobs)
        /\ \A j \in JobsOf(run.jobs) : j.created > run.fetch_from[1]

(***************************************************************************)
(* Properties of the two stores across runs of main, checked under Spec.   *)
(***************************************************************************)
\* no run so far has failed between its commit to Postgres and the moment
\* MongoDB held its batch; so it is of every run that completed successfully
NoRunFailedBetweenStores == owed.ids = {}

\* C28: after any sequence of runs of main, failed ones included, every id
\* of the collection is in the job table; and, from empty stores, while
\* every run has completed successfully the two stores hold the same ids.
C28_MongoWithinSql ==
    /\ DocIds(mongo) \subseteq JobIds(sql)
    /\ (pc = "idle" /\ NoRunFailedBetweenStores) => JobIds(sql) = DocIds(mongo)

\* two runs have returned and both stores hold the same two jobs or more
C28_Witness ==
    /\ pc = "idle" /\ nruns = 2 /\ run.outcome = "returned"
    /\ NoRunFailedBetweenStores
    /\ Cardinality(DocIds(mongo)) >= 2
    /\ JobIds(sql) = DocIds(mongo)

(***************************************************************************)
(* Properties of the dimension tables, checked under SpecStore.            *)
(***************************************************************************)
\* C29: store_jobs_sql called again with the batch it has just stored adds
\* no row to the company, category or location table, also when jobs of the
\* batch have no company name, no category tag or no location display name.
C29_NoNewDimensionRows ==
    [][(last'.op = "sql" /\ last'.again /\ last'.ok) =>
          /\ sql'.company = sql.company
          /\ sql'.category = sql.category
          /\ sql'.location = sql.location]_vars

(***************************************************************************)
(* Properties of the ETL pipeline, checked under SpecEtl.                  *)
(***************************************************************************)
\* a request the extract step made has failed
ExtractRequestFailed ==
    \E page \in 1..probe.extract.requested : RequestFails(probe.answers[page])

\* C30: whenever an API request made by the extract step fails, for every
\* max_pages >= 1 and whichever page it is, extract_jobs returns
\* success=False and run_etl_pipeline ends with success=False without
\* running transform or load.
C30_ExtractFailureStops ==
    (probe.op = "run_etl_pipeline" /\ ExtractRequestFailed) =>
        /\ ~probe.extract.success
        /\ probe.result.outcome = "returned"
        /\ ~probe.result.success
        /\ probe.result.steps = <<"extract">>

====
